---------------------------- MODULE Spec2Model ----------------------------
(***************************************************************************)
(* State-machine model of the IEC 61850 simulator control plane:           *)
(* the action dispatcher (action/action.cpp), the MessagePack codec        *)
(* (msgpack_codec.cpp), the instance registry (core_context.hpp), the      *)
(* server and client action handlers (action/server_actions.cpp,           *)
(* action/server_load_model.cpp, action/client_actions.cpp) and the part   *)
(* of the network alias manager the handlers call (network_config.cpp).    *)
(*                                                                         *)
(* MessagePack objects are records tagged by their msgpack::type; a map is *)
(* the ordered sequence of its key/value pairs, as find_key searches it.   *)
(* The packer's buffer is the sequence of envelope entries packed so far.  *)
(* Handles of the IEC 61850 stack are "nullptr" or a live-object value.    *)
(***************************************************************************)
EXTENDS Integers, Sequences, FiniteSets, TLC

\* ------------------------------------------------------------------ bounds

\* Largest number of entries the connection-indication callback is let to
\* put on one instance's clients list.
MaxClients == 1

\* ------------------------------------------------------- MessagePack codec

Nil == [type |-> "NIL"]
Str(s) == [type |-> "STR", str |-> s]
PInt(i) == [type |-> "POSITIVE_INTEGER", u64 |-> i]
NInt(i) == [type |-> "NEGATIVE_INTEGER", i64 |-> i]
Bool(b) == [type |-> "BOOLEAN", boolean |-> b]
Arr(elems) == [type |-> "ARRAY", array |-> elems]
Map(pairs) == [type |-> "MAP", map |-> pairs]
KV(k, v) == [key |-> Str(k), val |-> v]

\* A null `const msgpack::object*` (find_key found nothing).
NullObj == [type |-> "nullptr"]

\* The handles' null value.
NULL == "nullptr"

MinOf(S) == CHOOSE x \in S : \A y \in S : x <= y

find_key(map_obj, key) ==
    IF map_obj.type # "MAP" THEN NullObj
    ELSE LET hits == {i \in 1..Len(map_obj.map) :
                        /\ map_obj.map[i].key.type = "STR"
                        /\ map_obj.map[i].key.str = key}
         IN IF hits = {} THEN NullObj ELSE map_obj.map[MinOf(hits)].val

as_string(obj, fallback) == IF obj.type = "STR" THEN obj.str ELSE fallback

as_int64(obj, fallback) ==
    IF obj.type = "POSITIVE_INTEGER" THEN obj.u64
    ELSE IF obj.type = "NEGATIVE_INTEGER" THEN obj.i64
    ELSE fallback

as_bool(obj, fallback) == IF obj.type = "BOOLEAN" THEN obj.boolean ELSE fallback

pack_error(message) == Map(<<KV("message", Str(message))>>)

pack_success_payload == Map(<<KV("success", Bool(TRUE))>>)

\* Request bytes that msgpack::unpack rejects (a zero-length body among them).
Garbage == [type |-> "INVALID_BYTES"]

\* decode_request: throws on bytes that are no MessagePack value; id and action
\* default to "", has_payload is set when the root map has a "payload" key.
decode_request(bytes) ==
    IF bytes = Garbage
    THEN [ok |-> FALSE, id |-> "", action |-> "", payload |-> Nil, has_payload |-> FALSE]
    ELSE LET id_obj == find_key(bytes, "id")
             action_obj == find_key(bytes, "action")
             payload_ptr == find_key(bytes, "payload")
         IN [ok |-> TRUE,
             id |-> IF id_obj # NullObj THEN as_string(id_obj, "") ELSE "",
             action |-> IF action_obj # NullObj THEN as_string(action_obj, "") ELSE "",
             payload |-> IF payload_ptr # NullObj THEN payload_ptr ELSE Nil,
             has_payload |-> payload_ptr # NullObj]

\* -------------------------------------------------- network alias manager

\* An IPv4 address string is written as the tuple of its four octets:
\* "0.0.0.0" is <<0, 0, 0, 0>>, and a string starts with "127." exactly when
\* the first octet is 127.
WILDCARD == <<0, 0, 0, 0>>

\* The interfaces of the host (those if_nametoindex resolves).
OsInterfaces == {"eth0"}

should_configure_ip(ip_address) ==
    ~(ip_address = WILDCARD \/ ip_address[1] = 127)

\* An entry of the kernel's address table.
OsAddr(interface_name, ip_address, label) ==
    [ifname |-> interface_name, local |-> ip_address, label |-> label]

\* Whether the kernel holds ip_address on interface_name (under any label).
OsHas(os, interface_name, ip_address) ==
    \E a \in os : a.ifname = interface_name /\ a.local = ip_address

\* What netlink answers a call: whether nl_connect succeeds, and whether the
\* kernel refuses the request for a reason other than the address being there
\* already (add) or not being there (delete).
NlAnswers == [connect : BOOLEAN, refuse : BOOLEAN]

\* The netlink socket connects and the kernel refuses nothing.
NlOk == [connect |-> TRUE, refuse |-> FALSE]

\* What add_ip_address and remove_ip_address return, the address table they
\* leave, and the calls they made.
NetResult(ok, os, net_calls) == [ok |-> ok, os |-> os, calls |-> net_calls]

\* add_ip_address that reports EEXIST as a failure.
add_ip_address_strict(os, interface_name, ip_address, prefix_len, label, nl) ==
    IF ~nl.connect THEN NetResult(FALSE, os, <<"nl_connect">>)
    ELSE IF interface_name \notin OsInterfaces
    THEN NetResult(FALSE, os, <<"nl_connect", "if_nametoindex">>)
    ELSE IF nl.refuse \/ OsHas(os, interface_name, ip_address)
    THEN NetResult(FALSE, os, <<"nl_connect", "if_nametoindex", "rtnl_addr_add">>)
    ELSE NetResult(TRUE, os \cup {OsAddr(interface_name, ip_address, label)},
                   <<"nl_connect", "if_nametoindex", "rtnl_addr_add">>)

\* add_ip_address: false when the netlink socket does not connect or the
\* interface does not resolve; rtnl_addr_add answers EEXIST for an address the
\* interface already holds, which is reported as success and leaves the table
\* as it is; any other refusal is false.
add_ip_address(os, interface_name, ip_address, prefix_len, label, nl) ==
    IF ~nl.connect THEN NetResult(FALSE, os, <<"nl_connect">>)
    ELSE IF interface_name \notin OsInterfaces
    THEN NetResult(FALSE, os, <<"nl_connect", "if_nametoindex">>)
    ELSE IF nl.refuse
    THEN NetResult(FALSE, os, <<"nl_connect", "if_nametoindex", "rtnl_addr_add">>)
    ELSE IF OsHas(os, interface_name, ip_address)
    THEN NetResult(TRUE, os, <<"nl_connect", "if_nametoindex", "rtnl_addr_add">>)
    ELSE NetResult(TRUE, os \cup {OsAddr(interface_name, ip_address, label)},
                   <<"nl_connect", "if_nametoindex", "rtnl_addr_add">>)

\* remove_ip_address: nothing to do for 0.0.0.0 and 127.*; false when the
\* netlink socket does not connect or the interface does not resolve;
\* "address not found" is reported as success; any other refusal is false.
remove_ip_address(os, interface_name, ip_address, prefix_len, nl) ==
    IF ~should_configure_ip(ip_address) THEN NetResult(TRUE, os, <<>>)
    ELSE IF ~nl.connect THEN NetResult(FALSE, os, <<"nl_connect">>)
    ELSE IF interface_name \notin OsInterfaces
    THEN NetResult(FALSE, os, <<"nl_connect", "if_nametoindex">>)
    ELSE IF nl.refuse
    THEN NetResult(FALSE, os, <<"nl_connect", "if_nametoindex", "rtnl_addr_delete">>)
    ELSE NetResult(TRUE,
                   {a \in os : ~(a.ifname = interface_name /\ a.local = ip_address)},
                   <<"nl_connect", "if_nametoindex", "rtnl_addr_delete">>)

\* The label server.start gives the alias of an instance.
AliasLabel(interface_name, instance_id) == interface_name \o ":iec" \o instance_id

\* ------------------------------------------------------- instance registry

\* Defaults of the fields server_actions.cpp uses and core_context.hpp under
\* src/ does not declare.
DefaultIpConfigured == FALSE
DefaultGlobalInterfaceName == ""
DefaultGlobalPrefixLen == 24

\* A ServerInstanceContext as get_or_create_server_instance constructs it;
\* model_nodes is what the IedModel that `model` points to holds.
NewServerInstance(instance_id) ==
    [instance_id |-> instance_id,
     ied_name |-> "",
     ip_address |-> WILDCARD,
     model |-> NULL,
     server |-> NULL,
     config |-> NULL,
     clients |-> <<>>,
     port |-> 102,
     running |-> FALSE,
     ip_configured |-> DefaultIpConfigured,
     model_nodes |-> <<>>]

\* A ClientInstanceContext as get_or_create_client_instance constructs it.
NewClientInstance(instance_id) ==
    [instance_id |-> instance_id,
     target_host |-> "",
     target_port |-> 102,
     ied_name |-> "IED",
     connection |-> NULL,
     connected |-> FALSE]

\* The BackendContext a daemon starts with (its mutex is the variable mutex).
NewBackendContext ==
    [server_instances |-> <<>>,
     client_instances |-> <<>>,
     global_interface_name |-> DefaultGlobalInterfaceName,
     global_prefix_len |-> DefaultGlobalPrefixLen]

\* get_server_instance: the instance, or nullptr (here: whether it is there).
has_server_instance(ctx, instance_id) == instance_id \in DOMAIN ctx.server_instances

get_server_instance(ctx, instance_id) == ctx.server_instances[instance_id]

\* m with key k bound to v (std::unordered_map operator[] assignment).
MapPut(m, k, v) == [x \in DOMAIN m \cup {k} |-> IF x = k THEN v ELSE m[x]]

\* m without key k (std::unordered_map::erase).
MapErase(m, k) == [x \in DOMAIN m \ {k} |-> m[x]]

get_or_create_server_instance(ctx, instance_id) ==
    IF instance_id \in DOMAIN ctx.server_instances THEN ctx
    ELSE [ctx EXCEPT !.server_instances =
              MapPut(@, instance_id, NewServerInstance(instance_id))]

\* remove_server_instance that leaves the entry in the map.
remove_server_instance_keeping(ctx, instance_id) == ctx

remove_server_instance(ctx, instance_id) ==
    [ctx EXCEPT !.server_instances = MapErase(@, instance_id)]

has_client_instance(ctx, instance_id) == instance_id \in DOMAIN ctx.client_instances

get_client_instance(ctx, instance_id) == ctx.client_instances[instance_id]

get_or_create_client_instance(ctx, instance_id) ==
    IF instance_id \in DOMAIN ctx.client_instances THEN ctx
    ELSE [ctx EXCEPT !.client_instances =
              MapPut(@, instance_id, NewClientInstance(instance_id))]

remove_client_instance(ctx, instance_id) ==
    [ctx EXCEPT !.client_instances = MapErase(@, instance_id)]

\* ctx with server instance `instance_id` replaced by inst (writes through the
\* ServerInstanceContext* the handlers hold).
SetServer(ctx, instance_id, inst) ==
    [ctx EXCEPT !.server_instances = MapPut(@, instance_id, inst)]

SetClient(ctx, instance_id, inst) ==
    [ctx EXCEPT !.client_instances = MapPut(@, instance_id, inst)]

\* ------------------------------------------------- common handler helpers

\* What a handler leaves behind: the context, the kernel's address table, the
\* envelope entries it packed (payload and error) and, in order, the calls it
\* made into the IEC 61850 stack, the alias manager and the registry.
Result(ctx, os, pk, calls) == [ctx |-> ctx, os |-> os, pk |-> pk, calls |-> calls]

\* ensure_payload_map asking only for a payload key.
ensure_payload_map_any(payload, has_payload) == has_payload

ensure_payload_map(payload, has_payload) == has_payload /\ payload.type = "MAP"

pack_error_response(error_msg) ==
    <<KV("payload", Map(<<>>)), KV("error", pack_error(error_msg))>>

\* The payload and error entries of a success response.
pack_ok(payload_map) == <<KV("payload", payload_map), KV("error", Nil)>>

extract_instance_id(payload) ==
    LET id_obj == find_key(payload, "instance_id")
    IN IF id_obj # NullObj THEN as_string(id_obj, "") ELSE ""

\* validate_and_extract_instance_id letting an instance_id that is absent or
\* no string name the instance "default".
validate_and_extract_instance_id_defaulting(payload) ==
    LET id_obj == find_key(payload, "instance_id")
    IN IF id_obj # NullObj THEN as_string(id_obj, "default") ELSE "default"

\* validate_and_extract_instance_id: error_occurred is instance_id = "".
validate_and_extract_instance_id(payload) == extract_instance_id(payload)

\* ------------------------------------------------------------ data model

\* The nodes of an IedModel are kept with the instance that owns the model, as
\* the function from a node's object reference ("LD/LN.DO.da") to the node: its
\* ModelNodeType, and for a data attribute its DataAttributeType and MmsValue.
\* No MmsValue (a null mmsValue):
NoValue == [type |-> "nullptr"]
MmsBoolean(b) == [type |-> "MMS_BOOLEAN", boolean |-> b]
MmsInteger(i) == [type |-> "MMS_INTEGER", integer |-> i]
MmsString(s) == [type |-> "MMS_STRING", str |-> s]

ModelNode(kind, type, value) == [kind |-> kind, type |-> type, value |-> value]

\* A null ModelNode*.
NullNode == ModelNode("nullptr", "", NoValue)

\* map_type, for type names written in upper case.
map_type(type) ==
    CASE type \in {"BOOLEAN", "BOOL"} -> "BOOLEAN"
      [] type \in {"INT8", "INT16", "INT32", "INT64", "INT8U", "INT16U", "INT24U",
                   "INT32U", "FLOAT32", "FLOAT64", "QUALITY", "TIMESTAMP", "CHECK"} -> type
      [] type \in {"ENUM", "ENUMERATED"} -> "ENUMERATED"
      [] type \in {"VISSTRING32", "VIS_STRING_32"} -> "VISIBLE_STRING_32"
      [] type \in {"VISSTRING64", "VIS_STRING_64"} -> "VISIBLE_STRING_64"
      [] type \in {"VISSTRING129", "VIS_STRING_129"} -> "VISIBLE_STRING_129"
      [] type \in {"VISSTRING255", "VIS_STRING_255"} -> "VISIBLE_STRING_255"
      [] type \in {"UNICODESTRING255", "UNICODE_STRING_255"} -> "UNICODE_STRING_255"
      [] type \in {"OCTETSTRING64", "OCTET_STRING_64"} -> "OCTET_STRING_64"
      [] type \in {"STRUCT", "STRUCTURE"} -> "CONSTRUCTED"
      [] OTHER -> "VISIBLE_STRING_255"

Int32Types == {"INT8", "INT16", "INT32"}
StringTypes == {"VISIBLE_STRING_32", "VISIBLE_STRING_64", "VISIBLE_STRING_129",
                "VISIBLE_STRING_255", "UNICODE_STRING_255"}

\* object_truthy, for strings written in lower case.
object_truthy(obj) ==
    CASE obj.type = "BOOLEAN" -> obj.boolean
      [] obj.type = "POSITIVE_INTEGER" -> obj.u64 # 0
      [] obj.type = "NEGATIVE_INTEGER" -> obj.i64 # 0
      [] obj.type = "STR" -> obj.str \in {"true", "1", "yes", "on"}
      [] OTHER -> FALSE

\* parse_int32_fallback on an object that is no string of digits. The integers
\* of the model lie within the int32 range, where static_cast<int32_t> keeps
\* the value.
parse_int32_fallback(obj, fallback) ==
    CASE obj.type = "POSITIVE_INTEGER" -> obj.u64
      [] obj.type = "NEGATIVE_INTEGER" -> obj.i64
      [] OTHER -> fallback

\* create_value_from_msg that drops the declared value.
create_value_from_msg_undeclared(obj, type) == NoValue

\* create_value_from_msg for the boolean, signed integer and string types; a
\* null MmsValue* for nil and for the types that fall to its default branch.
create_value_from_msg(obj, type) ==
    IF obj.type = "NIL" THEN NoValue
    ELSE CASE type = "BOOLEAN" -> MmsBoolean(object_truthy(obj))
           [] type \in Int32Types -> MmsInteger(parse_int32_fallback(obj, 0))
           [] type = "INT64" -> MmsInteger(as_int64(obj, 0))
           [] type \in StringTypes -> MmsString(as_string(obj, ""))
           [] OTHER -> NoValue

\* The entries of a msgpack map, as the set of its positions.
Entries(map_obj) == 1..Len(map_obj.map)

\* create_attribute_recursive: the data attribute `name` under the node at
\* `parent`, and its sub-attributes; the node set is returned as
\* {reference, node} pairs.
RECURSIVE create_attribute_recursive(_, _, _)
create_attribute_recursive(name, parent, attr_obj) ==
    LET type_obj == find_key(attr_obj, "type")
        attributes_obj == find_key(attr_obj, "attributes")
        value_obj == find_key(attr_obj, "value")
    IN IF attributes_obj # NullObj /\ attributes_obj.type = "MAP"
       THEN {[ref |-> parent \o "." \o name,
              node |-> ModelNode("DataAttributeModelType", "CONSTRUCTED", NoValue)]}
            \cup UNION {create_attribute_recursive(attributes_obj.map[i].key.str,
                                                   parent \o "." \o name,
                                                   attributes_obj.map[i].val) :
                           i \in Entries(attributes_obj)}
       ELSE {[ref |-> parent \o "." \o name,
              node |-> ModelNode("DataAttributeModelType",
                         map_type(IF type_obj # NullObj THEN as_string(type_obj, "") ELSE ""),
                         IF value_obj = NullObj THEN NoValue
                         ELSE create_value_from_msg(value_obj,
                                  map_type(IF type_obj # NullObj
                                           THEN as_string(type_obj, "") ELSE "")))]}

\* create_data_object_recursive: the data object `name`, its attributes and
\* the data objects nested in it (the entries that carry a "cdc" key).
RECURSIVE create_data_object_recursive(_, _, _)
create_data_object_recursive(name, parent, do_obj) ==
    LET attrs_obj == find_key(do_obj, "attributes")
    IN {[ref |-> parent \o "." \o name,
         node |-> ModelNode("DataObjectModelType", "", NoValue)]}
       \cup IF attrs_obj = NullObj \/ attrs_obj.type # "MAP" THEN {}
            ELSE UNION {IF find_key(attrs_obj.map[a].val, "cdc") # NullObj
                        THEN create_data_object_recursive(attrs_obj.map[a].key.str,
                                 parent \o "." \o name, attrs_obj.map[a].val)
                        ELSE create_attribute_recursive(attrs_obj.map[a].key.str,
                                 parent \o "." \o name, attrs_obj.map[a].val) :
                          a \in Entries(attrs_obj)}

\* The logical node `ln_name` of device `ld_name` and the data objects under it.
LogicalNode_create(ld_name, ln_name, ln_val) ==
    LET do_obj == find_key(ln_val, "data_objects")
    IN {[ref |-> ld_name \o "/" \o ln_name,
         node |-> ModelNode("LogicalNodeModelType", "", NoValue)]}
       \cup IF do_obj = NullObj \/ do_obj.type # "MAP" THEN {}
            ELSE UNION {create_data_object_recursive(do_obj.map[k].key.str,
                            ld_name \o "/" \o ln_name, do_obj.map[k].val) :
                          k \in Entries(do_obj)}

\* The logical device `ld_name` and the logical nodes under it.
LogicalDevice_create(ld_name, ld_val) ==
    LET ln_obj == find_key(ld_val, "logical_nodes")
    IN {[ref |-> ld_name, node |-> ModelNode("LogicalDeviceModelType", "", NoValue)]}
       \cup IF ln_obj = NullObj \/ ln_obj.type # "MAP" THEN {}
            ELSE UNION {LogicalNode_create(ld_name, ln_obj.map[j].key.str, ln_obj.map[j].val) :
                          j \in Entries(ln_obj)}

\* The function a set of {reference, node} pairs stands for.
NodeMap(pairs) ==
    IF pairs = {} THEN <<>>
    ELSE [r \in {p.ref : p \in pairs} |-> (CHOOSE p \in pairs : p.ref = r).node]

\* build_model_from_dict: the nodes of the model built from model_obj.
IedModel_create(model_obj) ==
    LET lds_obj == find_key(model_obj, "logical_devices")
    IN IF lds_obj = NullObj \/ lds_obj.type # "MAP" THEN <<>>
       ELSE NodeMap(UNION {LogicalDevice_create(lds_obj.map[i].key.str, lds_obj.map[i].val) :
                             i \in Entries(lds_obj)})

\* IedModel_getModelNodeByObjectReference on the nodes of a model.
IedModel_getModelNodeByObjectReference(model, reference) ==
    IF reference \in DOMAIN model THEN model[reference] ELSE NullNode

\* build_model_from_dict: the IED name the model is created with.
build_model_from_dict(model_obj) ==
    LET name_obj == find_key(model_obj, "name")
    IN IF name_obj # NullObj THEN as_string(name_obj, "IED") ELSE "IED"

\* ------------------------------------------------- server action handlers

\* server.load_model that destroys the model and the config before the server
\* that uses them.
ServerLoadModelAction_model_first(ctx, os, payload, has_payload) ==
    IF ~ensure_payload_map(payload, has_payload)
    THEN Result(ctx, os, pack_error_response("Missing payload"), <<>>)
    ELSE
    LET instance_id == validate_and_extract_instance_id(payload)
        model_obj == find_key(payload, "model")
        config_obj == find_key(payload, "config")
    IN
    IF instance_id = ""
    THEN Result(ctx, os, pack_error_response("instance_id is required"), <<>>)
    ELSE IF model_obj = NullObj
    THEN Result(ctx, os, pack_error_response("model payload is required"), <<>>)
    ELSE
    LET ctx1 == get_or_create_server_instance(ctx, instance_id)
        inst == get_server_instance(ctx1, instance_id)
        release ==
            (IF inst.model # NULL THEN <<"IedModel_destroy">> ELSE <<>>)
            \o (IF inst.config # NULL THEN <<"IedServerConfig_destroy">> ELSE <<>>)
            \o (IF inst.server # NULL THEN <<"IedServer_stop", "IedServer_destroy">> ELSE <<>>)
        has_cfg == config_obj # NullObj /\ config_obj.type = "MAP"
        port_obj == IF has_cfg THEN find_key(config_obj, "port") ELSE NullObj
        ip_obj == IF has_cfg THEN find_key(config_obj, "ip_address") ELSE NullObj
        port == IF port_obj # NullObj THEN as_int64(port_obj, 102) ELSE 102
        ip_address == IF ip_obj # NullObj THEN as_string(ip_obj, WILDCARD) ELSE WILDCARD
        inst1 == [inst EXCEPT !.server = NULL,
                              !.model = "IedModel",
                              !.model_nodes = IedModel_create(model_obj),
                              !.ied_name = build_model_from_dict(model_obj),
                              !.config = "IedServerConfig",
                              !.port = port,
                              !.ip_address = ip_address]
    IN Result(SetServer(ctx1, instance_id, inst1), os,
              pack_ok(Map(<<KV("success", Bool(TRUE)), KV("instance_id", Str(instance_id))>>)),
              release \o <<"IedModel_create", "IedServerConfig_create",
                           "IedServerConfig_setMaxMmsConnections">>)

ServerLoadModelAction(ctx, os, payload, has_payload) ==
    IF ~ensure_payload_map(payload, has_payload)
    THEN Result(ctx, os, pack_error_response("Missing payload"), <<>>)
    ELSE
    LET instance_id == validate_and_extract_instance_id(payload)
        model_obj == find_key(payload, "model")
        config_obj == find_key(payload, "config")
    IN
    IF instance_id = ""
    THEN Result(ctx, os, pack_error_response("instance_id is required"), <<>>)
    ELSE IF model_obj = NullObj
    THEN Result(ctx, os, pack_error_response("model payload is required"), <<>>)
    ELSE
    LET ctx1 == get_or_create_server_instance(ctx, instance_id)
        inst == get_server_instance(ctx1, instance_id)
        release ==
            (IF inst.server # NULL THEN <<"IedServer_stop", "IedServer_destroy">> ELSE <<>>)
            \o (IF inst.config # NULL THEN <<"IedServerConfig_destroy">> ELSE <<>>)
            \o (IF inst.model # NULL THEN <<"IedModel_destroy">> ELSE <<>>)
        has_cfg == config_obj # NullObj /\ config_obj.type = "MAP"
        port_obj == IF has_cfg THEN find_key(config_obj, "port") ELSE NullObj
        ip_obj == IF has_cfg THEN find_key(config_obj, "ip_address") ELSE NullObj
        port == IF port_obj # NullObj THEN as_int64(port_obj, 102) ELSE 102
        ip_address == IF ip_obj # NullObj THEN as_string(ip_obj, WILDCARD) ELSE WILDCARD
        inst1 == [inst EXCEPT !.server = NULL,
                              !.model = "IedModel",
                              !.model_nodes = IedModel_create(model_obj),
                              !.ied_name = build_model_from_dict(model_obj),
                              !.config = "IedServerConfig",
                              !.port = port,
                              !.ip_address = ip_address]
    IN Result(SetServer(ctx1, instance_id, inst1), os,
              pack_ok(Map(<<KV("success", Bool(TRUE)), KV("instance_id", Str(instance_id))>>)),
              release \o <<"IedModel_create", "IedServerConfig_create",
                           "IedServerConfig_setMaxMmsConnections">>)

\* server.start that looks its instance up with get_or_create and starts a
\* server without asking for a model.
ServerStartAction_creating(ctx, os, payload, has_payload, is_running) ==
    IF ~ensure_payload_map(payload, has_payload)
    THEN Result(ctx, os, pack_error_response("Missing payload"), <<>>)
    ELSE
    LET instance_id == validate_and_extract_instance_id(payload) IN
    IF instance_id = ""
    THEN Result(ctx, os, pack_error_response("instance_id is required"), <<>>)
    ELSE Result(SetServer(get_or_create_server_instance(ctx, instance_id), instance_id,
                    [get_server_instance(get_or_create_server_instance(ctx, instance_id),
                                         instance_id)
                        EXCEPT !.config = "IedServerConfig",
                               !.server = "IedServer",
                               !.running = is_running]),
                os,
                pack_ok(Map(<<KV("success", Bool(is_running)),
                              KV("instance_id", Str(instance_id))>>)),
                <<"IedServerConfig_create", "IedServer_createWithConfig",
                  "IedServer_start", "IedServer_isRunning">>)

\* is_running: what IedServer_isRunning answers after IedServer_start.
\* server.start that sets ip_configured whenever it attempts the alias add.
ServerStartAction_flagging(ctx, os, payload, has_payload, is_running) ==
    IF ~ensure_payload_map(payload, has_payload)
    THEN Result(ctx, os, pack_error_response("Missing payload"), <<>>)
    ELSE
    LET instance_id == validate_and_extract_instance_id(payload) IN
    IF instance_id = ""
    THEN Result(ctx, os, pack_error_response("instance_id is required"), <<>>)
    ELSE IF ~has_server_instance(ctx, instance_id)
            \/ get_server_instance(ctx, instance_id).model = NULL
    THEN Result(ctx, os,
                pack_error_response("Server not initialized. Call server.load_model first"),
                <<>>)
    ELSE
    LET inst == get_server_instance(ctx, instance_id)
        \* The config and the server are created where there is none, and a
        \* server that listens is stopped.
        c1 == IF inst.config = NULL THEN <<"IedServerConfig_create">> ELSE <<>>
        c2 == IF inst.server = NULL
              THEN <<"IedServer_createWithConfig", "IedServer_setConnectionIndicationHandler">>
                   \o (IF inst.ip_address # WILDCARD
                       THEN <<"IedServer_setLocalIpAddress">> ELSE <<>>)
              ELSE <<>>
        c3 == IF inst.running THEN <<"IedServer_stop">> ELSE <<>>
        \* The port and the address of the request's config, if any.
        config_obj == find_key(payload, "config")
        has_cfg == config_obj # NullObj /\ config_obj.type = "MAP"
        port_obj == IF has_cfg THEN find_key(config_obj, "port") ELSE NullObj
        ip_obj == IF has_cfg THEN find_key(config_obj, "ip_address") ELSE NullObj
        port == IF port_obj # NullObj THEN as_int64(port_obj, inst.port) ELSE inst.port
        ip_address == IF ip_obj # NullObj THEN as_string(ip_obj, inst.ip_address)
                      ELSE inst.ip_address
        set_ip == ip_obj # NullObj /\ ip_address # WILDCARD
        c4 == IF set_ip THEN <<"IedServer_setLocalIpAddress">> ELSE <<>>
        \* The alias, on the global interface.
        configure == should_configure_ip(ip_address) /\ ctx.global_interface_name # ""
        added == add_ip_address(os, ctx.global_interface_name, ip_address,
                                ctx.global_prefix_len,
                                AliasLabel(ctx.global_interface_name, instance_id), NlOk)
        c5 == IF configure THEN <<"add_ip_address">> ELSE <<>>
    IN Result(SetServer(ctx, instance_id,
                  [inst EXCEPT !.config = "IedServerConfig",
                               !.server = "IedServer",
                               !.port = port,
                               !.ip_address = IF set_ip THEN ip_address ELSE @,
                               !.ip_configured = IF configure THEN TRUE ELSE @,
                               !.running = is_running]),
              IF configure THEN added.os ELSE os,
              pack_ok(Map(<<KV("success", Bool(is_running)),
                            KV("instance_id", Str(instance_id))>>)),
              c1 \o c2 \o c3 \o c4 \o c5 \o <<"IedServer_start", "IedServer_isRunning">>)

ServerStartAction(ctx, os, payload, has_payload, is_running) ==
    IF ~ensure_payload_map(payload, has_payload)
    THEN Result(ctx, os, pack_error_response("Missing payload"), <<>>)
    ELSE
    LET instance_id == validate_and_extract_instance_id(payload) IN
    IF instance_id = ""
    THEN Result(ctx, os, pack_error_response("instance_id is required"), <<>>)
    ELSE IF ~has_server_instance(ctx, instance_id)
            \/ get_server_instance(ctx, instance_id).model = NULL
    THEN Result(ctx, os,
                pack_error_response("Server not initialized. Call server.load_model first"),
                <<>>)
    ELSE
    LET inst == get_server_instance(ctx, instance_id)
        \* The config and the server are created where there is none, and a
        \* server that listens is stopped.
        c1 == IF inst.config = NULL THEN <<"IedServerConfig_create">> ELSE <<>>
        c2 == IF inst.server = NULL
              THEN <<"IedServer_createWithConfig", "IedServer_setConnectionIndicationHandler">>
                   \o (IF inst.ip_address # WILDCARD
                       THEN <<"IedServer_setLocalIpAddress">> ELSE <<>>)
              ELSE <<>>
        c3 == IF inst.running THEN <<"IedServer_stop">> ELSE <<>>
        \* The port and the address of the request's config, if any.
        config_obj == find_key(payload, "config")
        has_cfg == config_obj # NullObj /\ config_obj.type = "MAP"
        port_obj == IF has_cfg THEN find_key(config_obj, "port") ELSE NullObj
        ip_obj == IF has_cfg THEN find_key(config_obj, "ip_address") ELSE NullObj
        port == IF port_obj # NullObj THEN as_int64(port_obj, inst.port) ELSE inst.port
        ip_address == IF ip_obj # NullObj THEN as_string(ip_obj, inst.ip_address)
                      ELSE inst.ip_address
        set_ip == ip_obj # NullObj /\ ip_address # WILDCARD
        c4 == IF set_ip THEN <<"IedServer_setLocalIpAddress">> ELSE <<>>
        \* The alias, on the global interface.
        configure == should_configure_ip(ip_address) /\ ctx.global_interface_name # ""
        added == add_ip_address(os, ctx.global_interface_name, ip_address,
                                ctx.global_prefix_len,
                                AliasLabel(ctx.global_interface_name, instance_id), NlOk)
        c5 == IF configure THEN <<"add_ip_address">> ELSE <<>>
    IN Result(SetServer(ctx, instance_id,
                  [inst EXCEPT !.config = "IedServerConfig",
                               !.server = "IedServer",
                               !.port = port,
                               !.ip_address = IF set_ip THEN ip_address ELSE @,
                               !.ip_configured = IF configure /\ added.ok THEN TRUE ELSE @,
                               !.running = is_running]),
              IF configure THEN added.os ELSE os,
              pack_ok(Map(<<KV("success", Bool(is_running)),
                            KV("instance_id", Str(instance_id))>>)),
              c1 \o c2 \o c3 \o c4 \o c5 \o <<"IedServer_start", "IedServer_isRunning">>)

\* server.stop that also destroys the server it stopped.
ServerStopAction_destroying(ctx, os, payload, has_payload) ==
    IF ~ensure_payload_map(payload, has_payload)
    THEN Result(ctx, os, pack_error_response("Missing payload"), <<>>)
    ELSE
    LET instance_id == validate_and_extract_instance_id(payload) IN
    IF instance_id = ""
    THEN Result(ctx, os, pack_error_response("instance_id is required"), <<>>)
    ELSE
    LET stops == /\ has_server_instance(ctx, instance_id)
                 /\ get_server_instance(ctx, instance_id).server # NULL
                 /\ get_server_instance(ctx, instance_id).running
    IN Result(IF stops
              THEN SetServer(ctx, instance_id,
                             [get_server_instance(ctx, instance_id)
                                 EXCEPT !.running = FALSE, !.server = NULL])
              ELSE ctx,
              os, pack_ok(pack_success_payload),
              IF stops THEN <<"IedServer_stop", "IedServer_destroy">> ELSE <<>>)

ServerStopAction(ctx, os, payload, has_payload) ==
    IF ~ensure_payload_map(payload, has_payload)
    THEN Result(ctx, os, pack_error_response("Missing payload"), <<>>)
    ELSE
    LET instance_id == validate_and_extract_instance_id(payload) IN
    IF instance_id = ""
    THEN Result(ctx, os, pack_error_response("instance_id is required"), <<>>)
    ELSE
    LET stops == /\ has_server_instance(ctx, instance_id)
                 /\ get_server_instance(ctx, instance_id).server # NULL
                 /\ get_server_instance(ctx, instance_id).running
    IN Result(IF stops
              THEN SetServer(ctx, instance_id,
                             [get_server_instance(ctx, instance_id) EXCEPT !.running = FALSE])
              ELSE ctx,
              os, pack_ok(pack_success_payload),
              IF stops THEN <<"IedServer_stop">> ELSE <<>>)

\* The release steps in the order that puts the alias between the clearing
\* of the client list and the erasure.
ReleaseSteps_aliasLate(unbind, server, config, model) ==
    server \o config \o model \o <<"clients.clear">> \o unbind
           \o <<"remove_server_instance">>

\* The order of server.remove's release steps: the alias, the server, the
\* config, the model, the client list, the map entry.
ReleaseSteps(unbind, server, config, model) ==
    unbind \o server \o config \o model \o <<"clients.clear", "remove_server_instance">>

\* server.remove that releases without asking whether the instance is there.
ServerRemoveAction_unguarded(ctx, os, payload, has_payload) ==
    IF ~ensure_payload_map(payload, has_payload)
    THEN Result(ctx, os, pack_error_response("Missing payload"), <<>>)
    ELSE
    LET instance_id == validate_and_extract_instance_id(payload) IN
    IF instance_id = ""
    THEN Result(ctx, os, pack_error_response("instance_id is required"), <<>>)
    ELSE Result(remove_server_instance(ctx, instance_id), os,
                pack_ok(pack_success_payload),
                ReleaseSteps(<<>>, <<"IedServer_destroy">>, <<"IedServerConfig_destroy">>,
                             <<"IedModel_destroy">>))

ServerRemoveAction(ctx, os, payload, has_payload) ==
    IF ~ensure_payload_map(payload, has_payload)
    THEN Result(ctx, os, pack_error_response("Missing payload"), <<>>)
    ELSE
    LET instance_id == validate_and_extract_instance_id(payload) IN
    IF instance_id = ""
    THEN Result(ctx, os, pack_error_response("instance_id is required"), <<>>)
    ELSE IF ~has_server_instance(ctx, instance_id)
    THEN Result(ctx, os, pack_ok(pack_success_payload), <<>>)
    ELSE
    LET inst == get_server_instance(ctx, instance_id)
        unbind == inst.ip_configured /\ ctx.global_interface_name # ""
        removed == remove_ip_address(os, ctx.global_interface_name, inst.ip_address,
                                     ctx.global_prefix_len, NlOk)
        c1 == IF unbind THEN <<"remove_ip_address">> ELSE <<>>
        c2 == IF inst.server # NULL
              THEN (IF inst.running THEN <<"IedServer_stop">> ELSE <<>>)
                   \o <<"IedServer_destroy">>
              ELSE <<>>
        c3 == IF inst.config # NULL THEN <<"IedServerConfig_destroy">> ELSE <<>>
        c4 == IF inst.model # NULL THEN <<"IedModel_destroy">> ELSE <<>>
    IN Result(remove_server_instance(ctx, instance_id),
              IF unbind THEN removed.os ELSE os,
              pack_ok(pack_success_payload),
              ReleaseSteps(c1, c2, c3, c4))

\* The {value, quality, timestamp} map packed for one reference.
Triple(value) == Map(<<KV("value", value), KV("quality", PInt(0)), KV("timestamp", Nil)>>)

\* The {value, quality, timestamp} triple packed for a reference that resolves
\* to no data attribute.
NullTriple == Triple(Nil)

\* pk.pack of a signed integer.
PackInt(i) == IF i >= 0 THEN PInt(i) ELSE NInt(i)

\* pack_attribute_value of the data attribute da: the stack's getter of da's
\* type reads the attribute's MmsValue, which the server gave the default of
\* the type where the model declared none.
pack_attribute_value(da) ==
    IF da = NullNode THEN NullTriple
    ELSE CASE da.type = "BOOLEAN" ->
                Triple(Bool(IF da.value = NoValue THEN FALSE ELSE da.value.boolean))
           [] da.type \in Int32Types \cup {"INT64"} ->
                Triple(PackInt(IF da.value = NoValue THEN 0 ELSE da.value.integer))
           [] da.type \in StringTypes ->
                Triple(Str(IF da.value = NoValue THEN "" ELSE da.value.str))
           [] OTHER -> NullTriple

\* update_attribute_value that returns before its switch.
update_attribute_value_skipped(da, value_obj) == da

\* update_attribute_value: the data attribute after the stack's update call of
\* its type; the types outside the switch keep their value.
update_attribute_value(da, value_obj) ==
    CASE da.type = "BOOLEAN" -> [da EXCEPT !.value = MmsBoolean(as_bool(value_obj, FALSE))]
      [] da.type \in Int32Types \cup {"INT64"} ->
            [da EXCEPT !.value = MmsInteger(as_int64(value_obj, 0))]
      [] da.type \in StringTypes -> [da EXCEPT !.value = MmsString(as_string(value_obj, ""))]
      [] OTHER -> da

\* The stack calls of update_attribute_value between the data-model lock and
\* unlock.
UpdateCalls(da) ==
    CASE da.type = "BOOLEAN" -> <<"IedServer_updateBooleanAttributeValue">>
      [] da.type \in Int32Types -> <<"IedServer_updateInt32AttributeValue">>
      [] da.type = "INT64" -> <<"IedServer_updateInt64AttributeValue">>
      [] da.type \in StringTypes -> <<"IedServer_updateVisibleStringAttributeValue">>
      [] OTHER -> <<>>

\* server.set_data_value that writes to the model of an instance without a server.
ServerSetDataValueAction_serverless(ctx, os, payload, has_payload) ==
    IF ~ensure_payload_map(payload, has_payload)
    THEN Result(ctx, os, pack_error_response("Missing payload"), <<>>)
    ELSE
    LET instance_id == validate_and_extract_instance_id(payload)
        ref_obj == find_key(payload, "reference")
        value_obj == find_key(payload, "value")
    IN
    IF instance_id = ""
    THEN Result(ctx, os, pack_error_response("instance_id is required"), <<>>)
    ELSE IF \/ ~has_server_instance(ctx, instance_id)
            \/ get_server_instance(ctx, instance_id).model = NULL
            \/ ref_obj = NullObj
            \/ value_obj = NullObj
    THEN Result(ctx, os,
                pack_error_response("Invalid request: missing server, model, reference, or value"),
                <<>>)
    ELSE
    LET inst == get_server_instance(ctx, instance_id)
        reference == as_string(ref_obj, "")
        node == IedModel_getModelNodeByObjectReference(inst.model_nodes, reference)
    IN IF node.kind = "DataAttributeModelType"
       THEN Result(SetServer(ctx, instance_id,
                       [inst EXCEPT !.model_nodes[reference] =
                                        update_attribute_value(node, value_obj)]),
                   os, pack_ok(pack_success_payload),
                   <<"IedModel_getModelNodeByObjectReference", "IedServer_lockDataModel">>
                   \o UpdateCalls(node) \o <<"IedServer_unlockDataModel">>)
       ELSE Result(ctx, os, pack_ok(pack_success_payload),
                   <<"IedModel_getModelNodeByObjectReference">>)

ServerSetDataValueAction(ctx, os, payload, has_payload) ==
    IF ~ensure_payload_map(payload, has_payload)
    THEN Result(ctx, os, pack_error_response("Missing payload"), <<>>)
    ELSE
    LET instance_id == validate_and_extract_instance_id(payload)
        ref_obj == find_key(payload, "reference")
        value_obj == find_key(payload, "value")
    IN
    IF instance_id = ""
    THEN Result(ctx, os, pack_error_response("instance_id is required"), <<>>)
    ELSE IF \/ ~has_server_instance(ctx, instance_id)
            \/ get_server_instance(ctx, instance_id).server = NULL
            \/ get_server_instance(ctx, instance_id).model = NULL
            \/ ref_obj = NullObj
            \/ value_obj = NullObj
    THEN Result(ctx, os,
                pack_error_response("Invalid request: missing server, model, reference, or value"),
                <<>>)
    ELSE
    LET inst == get_server_instance(ctx, instance_id)
        reference == as_string(ref_obj, "")
        node == IedModel_getModelNodeByObjectReference(inst.model_nodes, reference)
    IN IF node.kind = "DataAttributeModelType"
       THEN Result(SetServer(ctx, instance_id,
                       [inst EXCEPT !.model_nodes[reference] =
                                        update_attribute_value(node, value_obj)]),
                   os, pack_ok(pack_success_payload),
                   <<"IedModel_getModelNodeByObjectReference", "IedServer_lockDataModel">>
                   \o UpdateCalls(node) \o <<"IedServer_unlockDataModel">>)
       ELSE Result(ctx, os, pack_ok(pack_success_payload),
                   <<"IedModel_getModelNodeByObjectReference">>)

\* What server.get_values packs for one reference: the attribute's value for
\* a data attribute, the null triple for any other node and for no node.
ValueOf(model, reference) ==
    IF IedModel_getModelNodeByObjectReference(model, reference).kind = "DataAttributeModelType"
    THEN pack_attribute_value(IedModel_getModelNodeByObjectReference(model, reference))
    ELSE NullTriple

ServerGetValuesAction(ctx, os, payload, has_payload) ==
    IF ~ensure_payload_map(payload, has_payload)
    THEN Result(ctx, os, pack_error_response("Missing payload"), <<>>)
    ELSE
    LET instance_id == validate_and_extract_instance_id(payload)
        refs_obj == find_key(payload, "references")
    IN
    IF instance_id = ""
    THEN Result(ctx, os, pack_error_response("instance_id is required"), <<>>)
    ELSE IF \/ ~has_server_instance(ctx, instance_id)
            \/ get_server_instance(ctx, instance_id).server = NULL
            \/ get_server_instance(ctx, instance_id).model = NULL
            \/ refs_obj = NullObj
            \/ refs_obj.type # "ARRAY"
    THEN Result(ctx, os,
                pack_error_response("Invalid request: missing server, model, or references array"),
                <<>>)
    ELSE Result(ctx, os,
                pack_ok(Map(<<KV("values",
                    Map([i \in 1..Len(refs_obj.array) |->
                            KV(as_string(refs_obj.array[i], ""),
                               ValueOf(get_server_instance(ctx, instance_id).model_nodes,
                                       as_string(refs_obj.array[i], "")))]))>>)),
                [i \in 1..Len(refs_obj.array) |-> "IedModel_getModelNodeByObjectReference"])

\* The {id, connected_at} entries of a clients list.
PackClients(clients) ==
    Arr([i \in 1..Len(clients) |->
            Map(<<KV("id", Str(clients[i].id)),
                  KV("connected_at", Str(clients[i].connected_at))>>)])

\* server.get_clients that looks its instance up with get_or_create.
ServerGetClientsAction_creating(ctx, os, payload, has_payload) ==
    IF ~ensure_payload_map(payload, has_payload)
    THEN Result(ctx, os, pack_error_response("Missing payload"), <<>>)
    ELSE
    LET instance_id == validate_and_extract_instance_id(payload) IN
    IF instance_id = ""
    THEN Result(ctx, os, pack_error_response("instance_id is required"), <<>>)
    ELSE Result(get_or_create_server_instance(ctx, instance_id), os,
                pack_ok(Map(<<KV("clients",
                    PackClients(get_server_instance(
                        get_or_create_server_instance(ctx, instance_id),
                        instance_id).clients))>>)),
                <<>>)

ServerGetClientsAction(ctx, os, payload, has_payload) ==
    IF ~ensure_payload_map(payload, has_payload)
    THEN Result(ctx, os, pack_error_response("Missing payload"), <<>>)
    ELSE
    LET instance_id == validate_and_extract_instance_id(payload) IN
    IF instance_id = ""
    THEN Result(ctx, os, pack_error_response("instance_id is required"), <<>>)
    ELSE Result(ctx, os,
                pack_ok(Map(<<KV("clients",
                    IF has_server_instance(ctx, instance_id)
                    THEN PackClients(get_server_instance(ctx, instance_id).clients)
                    ELSE Arr(<<>>))>>)),
                <<>>)

\* server.list_instances that reports an instance that has a server as
\* RUNNING.
ServerListInstancesAction_by_server(ctx, os, payload, has_payload, order) ==
    IF ~ensure_payload_map(payload, has_payload)
    THEN Result(ctx, os, pack_error_response("Missing payload"), <<>>)
    ELSE Result(ctx, os,
                pack_ok(Map(<<KV("instances",
                    Arr([i \in 1..Len(order) |->
                        Map(<<KV("instance_id", Str(order[i])),
                              KV("state", Str(IF ctx.server_instances[order[i]].server # NULL
                                              THEN "RUNNING" ELSE "STOPPED")),
                              KV("port", PInt(ctx.server_instances[order[i]].port)),
                              KV("ied_name", Str(ctx.server_instances[order[i]].ied_name))>>)]))>>)),
                <<>>)

\* order: the order in which the unordered_map is iterated (an enumeration of
\* its keys).
ServerListInstancesAction(ctx, os, payload, has_payload, order) ==
    IF ~ensure_payload_map(payload, has_payload)
    THEN Result(ctx, os, pack_error_response("Missing payload"), <<>>)
    ELSE Result(ctx, os,
                pack_ok(Map(<<KV("instances",
                    Arr([i \in 1..Len(order) |->
                        Map(<<KV("instance_id", Str(order[i])),
                              KV("state", Str(IF ctx.server_instances[order[i]].running
                                              THEN "RUNNING" ELSE "STOPPED")),
                              KV("port", PInt(ctx.server_instances[order[i]].port)),
                              KV("ied_name", Str(ctx.server_instances[order[i]].ied_name))>>)]))>>)),
                <<>>)

\* Some enumeration of a finite set.
SetToSeq(S) == CHOOSE f \in [1..Cardinality(S) -> S] : \A x \in S : \E i \in DOMAIN f : f[i] = x

\* get_network_interfaces: getifaddrs names an address by its label; the
\* order of the entries is the kernel's and is not modelled.
get_network_interfaces(os) ==
    LET names == OsInterfaces \cup {a.label : a \in os}
        addrs(n) == SetToSeq({a.local : a \in {b \in os : b.label = n}})
        order == SetToSeq(names)
    IN [i \in 1..Len(order) |->
            [name |-> order[i], description |-> order[i], is_up |-> TRUE,
             addresses |-> addrs(order[i])]]

ServerGetInterfacesAction(ctx, os, payload, has_payload) ==
    IF ~ensure_payload_map(payload, has_payload)
    THEN Result(ctx, os, pack_error_response("Missing payload"), <<>>)
    ELSE
    LET interfaces == get_network_interfaces(os) IN
    Result(ctx, os,
           pack_ok(Map(<<
               KV("interfaces",
                  Arr([i \in 1..Len(interfaces) |->
                      Map(<<KV("name", Str(interfaces[i].name)),
                            KV("description", Str(interfaces[i].description)),
                            KV("is_up", Bool(interfaces[i].is_up)),
                            KV("addresses",
                               Arr([j \in 1..Len(interfaces[i].addresses) |->
                                       Str(interfaces[i].addresses[j])]))>>)])),
               KV("current_interface",
                  IF ctx.global_interface_name = "" THEN Nil
                  ELSE Map(<<KV("name", Str(ctx.global_interface_name)),
                             KV("prefix_len", PInt(ctx.global_prefix_len))>>))>>)),
           <<"get_network_interfaces">>)

ServerSetInterfaceAction(ctx, os, payload, has_payload) ==
    IF ~ensure_payload_map(payload, has_payload)
    THEN Result(ctx, os, pack_error_response("Missing payload"), <<>>)
    ELSE
    LET iface_obj == find_key(payload, "interface_name")
        prefix_obj == find_key(payload, "prefix_len")
        interface_name == as_string(iface_obj, "")
        prefix_len == IF prefix_obj # NullObj THEN as_int64(prefix_obj, 24) ELSE 24
    IN
    IF iface_obj = NullObj
    THEN Result(ctx, os, pack_error_response("interface_name is required"), <<>>)
    ELSE Result([ctx EXCEPT !.global_interface_name = interface_name,
                            !.global_prefix_len = prefix_len],
                os,
                pack_ok(Map(<<KV("interface_name", Str(interface_name)),
                              KV("prefix_len", PInt(prefix_len))>>)),
                <<>>)

\* ------------------------------------------------- client action handlers

\* client.read trying the functional constraints in the order of client.write.
ReadFcs_as_write == <<"SP", "CF", "ST", "MX">>

\* The functional constraints client.read and client.write try, in order.
ReadFcs == <<"ST", "MX", "SP", "CF">>
WriteFcs == <<"SP", "CF", "ST", "MX">>

\* IedClientError_toString.
IedClientError_toString(error) ==
    IF error = "IED_ERROR_OK" THEN "ok" ELSE "connection rejected"

\* The position in fcs of the first constraint the stack accepts, 0 if none.
FirstAccepted(fcs, accepts) ==
    LET hits == {i \in 1..Len(fcs) : fcs[i] \in accepts}
    IN IF hits = {} THEN 0 ELSE MinOf(hits)

\* A call of the stack under a functional constraint, with whether the error
\* it set is IED_ERROR_OK.
Tried(call, fc, ok) ==
    call \o ":" \o fc \o (IF ok THEN ":IED_ERROR_OK" ELSE ":error")

\* The calls of a loop that tries fcs in order and leaves at the first success.
Attempts(call, fcs, accepts) ==
    LET k == FirstAccepted(fcs, accepts)
    IN [i \in 1..(IF k = 0 THEN Len(fcs) ELSE k) |->
           Tried(call, fcs[i], fcs[i] \in accepts)]

\* seq, n times over.
RECURSIVE Repeat(_, _)
Repeat(seq, n) == IF n = 0 THEN <<>> ELSE seq \o Repeat(seq, n - 1)

\* require_instance_id of client_actions.cpp packs the same error response.
require_instance_id(payload) == extract_instance_id(payload)

\* IedConnection_connect with the error it sets.
ConnectCall(connect_ok) ==
    IF connect_ok THEN "IedConnection_connect:IED_ERROR_OK"
    ELSE "IedConnection_connect:IED_ERROR_CONNECTION_REJECTED"

\* client.connect that erases the instance whose connection failed.
ClientConnectAction_erasing(ctx, os, payload, has_payload, connect_ok) ==
    LET instance_id == require_instance_id(payload)
        host_obj == find_key(payload, "host")
        port_obj == find_key(payload, "port")
        cfg_obj == find_key(payload, "config")
    IN
    IF instance_id = ""
    THEN Result(ctx, os, pack_error_response("instance_id is required"), <<>>)
    ELSE IF host_obj = NullObj \/ port_obj = NullObj
    THEN Result(ctx, os, pack_error_response("Invalid request"), <<>>)
    ELSE
    LET ctx1 == get_or_create_client_instance(ctx, instance_id)
        inst == get_client_instance(ctx1, instance_id)
        c1 == IF inst.connection # NULL
              THEN <<"IedConnection_close", "IedConnection_destroy">> ELSE <<>>
        timeout_obj == IF cfg_obj # NullObj /\ cfg_obj.type = "MAP"
                       THEN find_key(cfg_obj, "timeout_ms") ELSE NullObj
        c2 == IF timeout_obj # NullObj
              THEN <<"IedConnection_setConnectTimeout", "IedConnection_setRequestTimeout">>
              ELSE <<>>
        inst1 == [inst EXCEPT !.connection = "IedConnection",
                              !.target_host = as_string(host_obj, ""),
                              !.target_port = as_int64(port_obj, 102),
                              !.connected = connect_ok]
    IN Result(IF connect_ok THEN SetClient(ctx1, instance_id, inst1)
              ELSE remove_client_instance(ctx1, instance_id), os,
              IF connect_ok
              THEN pack_ok(Map(<<KV("success", Bool(TRUE)),
                                 KV("instance_id", Str(instance_id))>>))
              ELSE pack_error_response(IedClientError_toString("IED_ERROR_CONNECTION_REJECTED")),
              c1 \o <<"IedConnection_create">> \o c2 \o <<ConnectCall(connect_ok)>>)

\* connect_ok: whether IedConnection_connect succeeds.
ClientConnectAction(ctx, os, payload, has_payload, connect_ok) ==
    LET instance_id == require_instance_id(payload)
        host_obj == find_key(payload, "host")
        port_obj == find_key(payload, "port")
        cfg_obj == find_key(payload, "config")
    IN
    IF instance_id = ""
    THEN Result(ctx, os, pack_error_response("instance_id is required"), <<>>)
    ELSE IF host_obj = NullObj \/ port_obj = NullObj
    THEN Result(ctx, os, pack_error_response("Invalid request"), <<>>)
    ELSE
    LET ctx1 == get_or_create_client_instance(ctx, instance_id)
        inst == get_client_instance(ctx1, instance_id)
        c1 == IF inst.connection # NULL
              THEN <<"IedConnection_close", "IedConnection_destroy">> ELSE <<>>
        timeout_obj == IF cfg_obj # NullObj /\ cfg_obj.type = "MAP"
                       THEN find_key(cfg_obj, "timeout_ms") ELSE NullObj
        c2 == IF timeout_obj # NullObj
              THEN <<"IedConnection_setConnectTimeout", "IedConnection_setRequestTimeout">>
              ELSE <<>>
        inst1 == [inst EXCEPT !.connection = "IedConnection",
                              !.target_host = as_string(host_obj, ""),
                              !.target_port = as_int64(port_obj, 102),
                              !.connected = connect_ok]
    IN Result(SetClient(ctx1, instance_id, inst1), os,
              IF connect_ok
              THEN pack_ok(Map(<<KV("success", Bool(TRUE)),
                                 KV("instance_id", Str(instance_id))>>))
              ELSE pack_error_response(IedClientError_toString("IED_ERROR_CONNECTION_REJECTED")),
              c1 \o <<"IedConnection_create">> \o c2 \o <<ConnectCall(connect_ok)>>)

\* ~ClientInstanceContext: the calls the destructor makes on the instance
\* that remove_client_instance erases.
ClientInstanceContext_destructor(inst) ==
    IF inst.connection # NULL
    THEN <<"IedConnection_close", "IedConnection_destroy">> ELSE <<>>

\* client.disconnect leaving the handle it destroyed in the instance.
ReleaseConnection_dangling(inst) == [inst EXCEPT !.connected = FALSE]

\* The instance after client.disconnect has closed and destroyed its
\* connection: the handle is nulled, connected is cleared.
ReleaseConnection(inst) == [inst EXCEPT !.connection = NULL, !.connected = FALSE]

ClientDisconnectAction(ctx, os, payload, has_payload) ==
    LET instance_id == require_instance_id(payload) IN
    IF instance_id = ""
    THEN Result(ctx, os, pack_error_response("instance_id is required"), <<>>)
    ELSE IF /\ has_client_instance(ctx, instance_id)
            /\ get_client_instance(ctx, instance_id).connection # NULL
    THEN Result(remove_client_instance(ctx, instance_id), os, pack_ok(pack_success_payload),
                <<"IedConnection_close", "IedConnection_destroy", "remove_client_instance">>
                \o ClientInstanceContext_destructor(
                       ReleaseConnection(get_client_instance(ctx, instance_id))))
    ELSE Result(ctx, os, pack_ok(pack_success_payload), <<>>)

\* The connection handle a client handler works on: the instance's, or nullptr.
ConnectionOf(ctx, instance_id) ==
    IF has_client_instance(ctx, instance_id)
    THEN get_client_instance(ctx, instance_id).connection ELSE NULL

\* The logical-device list of the remote IED is empty or not obtained; either
\* way pack_model packs an empty logical_devices map.
ClientBrowseAction(ctx, os, payload, has_payload) ==
    LET instance_id == require_instance_id(payload) IN
    IF instance_id = ""
    THEN Result(ctx, os, pack_error_response("instance_id is required"), <<>>)
    ELSE IF ConnectionOf(ctx, instance_id) = NULL
    THEN Result(ctx, os, pack_error_response("Client not connected"), <<>>)
    ELSE Result(ctx, os,
                pack_ok(Map(<<KV("model",
                    Map(<<KV("ied_name", Str(get_client_instance(ctx, instance_id).ied_name)),
                          KV("logical_devices", Map(<<>>))>>))>>)),
                <<"IedConnection_getLogicalDeviceList">>)

\* The per-read record: ok says whether some constraint was accepted, value is
\* the coerced MmsValue.
ReadRecord(ok, value) ==
    Map(<<KV("value", IF ok THEN value ELSE Nil),
          KV("quality", PInt(0)),
          KV("timestamp", Nil),
          KV("error", IF ok THEN Nil
                      ELSE Str(IedClientError_toString("IED_ERROR_OBJECT_DOES_NOT_EXIST")))>>)

\* accepts: the constraints under which the stack can read the reference;
\* value: what it reads.
ClientReadAction(ctx, os, payload, has_payload, accepts, value) ==
    LET instance_id == require_instance_id(payload)
        ref_obj == find_key(payload, "reference")
    IN
    IF instance_id = ""
    THEN Result(ctx, os, pack_error_response("instance_id is required"), <<>>)
    ELSE IF ConnectionOf(ctx, instance_id) = NULL \/ ref_obj = NullObj
    THEN Result(ctx, os, pack_error_response("Invalid request"), <<>>)
    ELSE Result(ctx, os,
                pack_ok(Map(<<KV("value",
                    ReadRecord(FirstAccepted(ReadFcs, accepts) # 0, value))>>)),
                Attempts("IedConnection_readObject", ReadFcs, accepts))

ClientReadBatchAction(ctx, os, payload, has_payload, accepts, value) ==
    LET instance_id == require_instance_id(payload)
        refs_obj == find_key(payload, "references")
    IN
    IF instance_id = ""
    THEN Result(ctx, os, pack_error_response("instance_id is required"), <<>>)
    ELSE IF \/ ConnectionOf(ctx, instance_id) = NULL
            \/ refs_obj = NullObj
            \/ refs_obj.type # "ARRAY"
    THEN Result(ctx, os, pack_error_response("Invalid request"), <<>>)
    ELSE Result(ctx, os,
                pack_ok(Map(<<KV("values",
                    Map([i \in 1..Len(refs_obj.array) |->
                            KV(as_string(refs_obj.array[i], ""),
                               ReadRecord(FirstAccepted(ReadFcs, accepts) # 0, value))]))>>)),
                Repeat(Attempts("IedConnection_readObject", ReadFcs, accepts),
                       Len(refs_obj.array)))

\* The write operation the value's MessagePack type selects.
WriteCall(value_obj) ==
    IF value_obj.type = "BOOLEAN" THEN "IedConnection_writeBooleanValue"
    ELSE IF value_obj.type \in {"FLOAT32", "FLOAT64"} THEN "IedConnection_writeFloatValue"
    ELSE IF value_obj.type = "STR" THEN "IedConnection_writeVisibleStringValue"
    ELSE "IedConnection_writeInt32Value"

\* accepts: the constraints under which the stack accepts the write.
ClientWriteAction(ctx, os, payload, has_payload, accepts) ==
    LET instance_id == require_instance_id(payload)
        ref_obj == find_key(payload, "reference")
        value_obj == find_key(payload, "value")
        success == FirstAccepted(WriteFcs, accepts) # 0
    IN
    IF instance_id = ""
    THEN Result(ctx, os, pack_error_response("instance_id is required"), <<>>)
    ELSE IF ConnectionOf(ctx, instance_id) = NULL \/ ref_obj = NullObj \/ value_obj = NullObj
    THEN Result(ctx, os, pack_error_response("Invalid request"), <<>>)
    ELSE Result(ctx, os,
                <<KV("payload", Map(<<KV("success", Bool(success))>>)),
                  KV("error", IF success THEN Nil
                              ELSE pack_error(IedClientError_toString("IED_ERROR_ACCESS_DENIED")))>>,
                Attempts(WriteCall(value_obj), WriteFcs, accepts))

\* order: the order in which the unordered_map is iterated.
ClientListInstancesAction(ctx, os, payload, has_payload, order) ==
    Result(ctx, os,
           pack_ok(Map(<<KV("instances",
               Arr([i \in 1..Len(order) |->
                   Map(<<KV("instance_id", Str(order[i])),
                         KV("state", Str(IF ctx.client_instances[order[i]].connected
                                         THEN "CONNECTED" ELSE "DISCONNECTED")),
                         KV("target_host", Str(ctx.client_instances[order[i]].target_host)),
                         KV("target_port", PInt(ctx.client_instances[order[i]].target_port))>>)]))>>)),
           <<>>)

\* --------------------------------------------------------------- dispatcher

\* The names register_client_actions and register_server_actions register.
ActionRegistry ==
    {"client.connect", "client.disconnect", "client.browse", "client.read",
     "client.read_batch", "client.write", "client.list_instances",
     "server.start", "server.stop", "server.remove", "server.load_model",
     "server.set_data_value", "server.get_values", "server.get_clients",
     "server.list_instances", "server.get_interfaces", "server.set_interface"}

\* The empty std::string (response_bytes that was never assigned).
EmptyBytes == [type |-> "EMPTY_STRING"]

\* handler->handle(ctx, pk). env holds what the handler gets from outside the
\* model: the stack's answers and the iteration order of the instance maps.
Handle(action, ctx, os, payload, has_payload, env) ==
    CASE action = "server.load_model" -> ServerLoadModelAction(ctx, os, payload, has_payload)
      [] action = "server.start" -> ServerStartAction(ctx, os, payload, has_payload, env.is_running)
      [] action = "server.stop" -> ServerStopAction(ctx, os, payload, has_payload)
      [] action = "server.remove" -> ServerRemoveAction(ctx, os, payload, has_payload)
      [] action = "server.set_data_value" -> ServerSetDataValueAction(ctx, os, payload, has_payload)
      [] action = "server.get_values" -> ServerGetValuesAction(ctx, os, payload, has_payload)
      [] action = "server.get_clients" -> ServerGetClientsAction(ctx, os, payload, has_payload)
      [] action = "server.list_instances" ->
            ServerListInstancesAction(ctx, os, payload, has_payload, env.order)
      [] action = "server.get_interfaces" -> ServerGetInterfacesAction(ctx, os, payload, has_payload)
      [] action = "server.set_interface" -> ServerSetInterfaceAction(ctx, os, payload, has_payload)
      [] action = "client.connect" ->
            ClientConnectAction(ctx, os, payload, has_payload, env.connect_ok)
      [] action = "client.disconnect" -> ClientDisconnectAction(ctx, os, payload, has_payload)
      [] action = "client.browse" -> ClientBrowseAction(ctx, os, payload, has_payload)
      [] action = "client.read" ->
            ClientReadAction(ctx, os, payload, has_payload, env.accepts, env.value)
      [] action = "client.read_batch" ->
            ClientReadBatchAction(ctx, os, payload, has_payload, env.accepts, env.value)
      [] action = "client.write" -> ClientWriteAction(ctx, os, payload, has_payload, env.accepts)
      [] action = "client.list_instances" ->
            ClientListInstancesAction(ctx, os, payload, has_payload, env.order)

\* The envelope entries the dispatcher packs before it looks the handler up.
EnvelopeHead(id) == <<KV("id", Str(id)), KV("type", Str("response"))>>

\* What handle_action returns for an action the registry does not hold: the
\* error response is packed into the buffer, and response_bytes is returned as
\* it was constructed.
UnknownActionResponse(id) == EmptyBytes

\* response_bytes.assign(buffer.data(), buffer.size()) after the handler r:
\* the bytes of the envelope, beside what the handler did.
Assigned(id, r) ==
    [response |-> Map(EnvelopeHead(id) \o r.pk), ctx |-> r.ctx, os |-> r.os, calls |-> r.calls]

\* handle_action: the response bytes, and what the handler did to the context
\* and the address table.
handle_action(request_bytes, ctx, os, env) ==
    LET request == decode_request(request_bytes) IN
    IF ~request.ok
    THEN [response |-> Map(<<KV("id", Str("")), KV("type", Str("response")),
                             KV("payload", Map(<<>>)),
                             KV("error", pack_error("Decode error: parse error"))>>),
          ctx |-> ctx, os |-> os, calls |-> <<>>]
    ELSE IF request.action \notin ActionRegistry
    THEN [response |-> UnknownActionResponse(request.id),
          ctx |-> ctx, os |-> os, calls |-> <<>>]
    ELSE Assigned(request.id,
                  Handle(request.action, ctx, os, request.payload, request.has_payload, env))

\* ------------------------------------------------------------------ inputs

IpA == <<10, 77, 0, 2>>
IpB == <<10, 77, 0, 3>>
Loopback == <<127, 0, 0, 1>>

\* The instance ids requests name.
InstanceIds == {"a", "b"}

\* An entry of a map under construction, left out when the value is absent.
Opt(k, v) == IF v = NullObj THEN <<>> ELSE <<KV(k, v)>>

\* The bytes of a request envelope; a payload of NullObj is no payload key.
Envelope(id, action, payload) ==
    Map(<<KV("id", Str(id)), KV("type", Str("request")), KV("action", Str(action))>>
        \o Opt("payload", payload))

\* Payloads no handler that asks for a payload map accepts: none, and a string.
BadPayloads == {NullObj, Str("payload")}

\* instance_id values that are absent, empty or not a string.
BadInstanceIds == {NullObj, Str(""), PInt(7)}

\* The payload fields, besides instance_id, of the requests an action gets for
\* an instance id. Instance "a" is taken through every configuration; "b" is
\* loaded and removed beside it.
Fields(action, id) ==
    CASE action = "server.load_model" ->
            IF id = "a"
            THEN {<<>>,
                  <<KV("model", Map(<<KV("name", Str("IED_A")),
                                      KV("logical_devices", Map(<<>>))>>))>>,
                  <<KV("model", Map(<<KV("name", Str("IED_A")),
                                      KV("logical_devices", Map(<<>>))>>)),
                    KV("config", Map(<<KV("ip_address", Str(IpA))>>))>>}
            ELSE {<<KV("model", Map(<<KV("logical_devices", Map(<<>>))>>)),
                    KV("config", Map(<<KV("port", PInt(10102))>>))>>}
      [] action = "server.start" ->
            {Opt("config", c) :
                c \in {NullObj,
                       Map(<<KV("ip_address", Str(IpA))>>),
                       Map(<<KV("ip_address", Str(IpB))>>),
                       Map(<<KV("ip_address", Str(WILDCARD))>>),
                       Map(<<KV("ip_address", Str(Loopback))>>)}}
      [] action = "server.set_data_value" ->
            {<<>>, <<KV("reference", Str("LD/LN.DO.da")), KV("value", Bool(TRUE))>>}
      [] action = "server.get_values" ->
            {<<>>, <<KV("references", Arr(<<>>))>>,
             <<KV("references", Arr(<<Str("LD/LN.DO.da")>>))>>}
      [] action = "client.read_batch" ->
            {<<>>, <<KV("references", Arr(<<>>))>>,
             <<KV("references", Str("LD/LN.DO.da"))>>,
             <<KV("references", Arr(<<Str("LD/LN.DO.db"), Str("LD/LN.DO.da")>>))>>}
      [] action = "server.set_interface" ->
            {<<>>, <<KV("interface_name", Str("eth0"))>>,
             <<KV("interface_name", Str(""))>>,
             <<KV("interface_name", Str("eth9")), KV("prefix_len", PInt(16))>>}
      [] action = "client.connect" ->
            {<<>>, <<KV("host", Str("192.0.2.1")), KV("port", PInt(102))>>,
             <<KV("host", Str("192.0.2.1")), KV("port", PInt(102)),
               KV("config", Map(<<KV("timeout_ms", PInt(500))>>))>>}
      [] action = "client.read" -> {<<>>, <<KV("reference", Str("LD/LN.DO.da"))>>}
      [] action = "client.write" ->
            {<<>>, <<KV("reference", Str("LD/LN.DO.da")), KV("value", Bool(TRUE))>>,
             <<KV("reference", Str("LD/LN.DO.da")), KV("value", PInt(5))>>}
      [] OTHER -> {<<>>}

\* The actions whose handlers ask for an instance_id.
TakesInstanceId(action) ==
    action \notin {"server.list_instances", "server.get_interfaces",
                   "server.set_interface", "client.list_instances"}

\* The instance ids the requests for an action name.
IdsOf(action) == IF action = "server.start" THEN {"a"} ELSE InstanceIds

\* The payloads of the requests for an action: the bad ones, one per bad
\* instance_id, and every choice of fields for every good instance_id.
Payloads(action) ==
    BadPayloads
    \cup (IF TakesInstanceId(action)
          THEN {Map(Opt("instance_id", i)) : i \in BadInstanceIds}
               \cup UNION {{Map(<<KV("instance_id", Str(i))>> \o f) : f \in Fields(action, i)} :
                              i \in IdsOf(action)}
          ELSE {Map(f) : f \in Fields(action, "")})

\* The request bytes dispatched for an action.
Requests(action) == {Envelope("r1", action, p) : p \in Payloads(action)}

\* Requests for names the registry does not hold, among them a root that is
\* no map (no id, no action) and an envelope without an action key.
UnknownRequests ==
    {Envelope("r1", "server.whatever", Map(<<>>)),
     Envelope("r2", "server.whatever", NullObj),
     Envelope("r2", "", Map(<<KV("instance_id", Str("a"))>>)),
     Map(<<KV("id", Str("r1"))>>),
     PInt(1)}

\* The references of the data model the value requests load: two data
\* attributes, their data object, and an attribute the model does not hold.
RefStVal == "PROT/XCBR1.Pos.stVal"
RefCtlNum == "PROT/XCBR1.Pos.ctlNum"
RefPos == "PROT/XCBR1.Pos"
RefAbsent == "PROT/XCBR1.Pos.q"

\* A model description with the data object PROT/XCBR1.Pos, whose BOOLEAN
\* attribute stVal and INT32 attribute ctlNum declare the given initial values.
LeafModel(stVal, ctlNum) ==
    Map(<<KV("name", Str("IED_A")),
          KV("logical_devices", Map(<<KV("PROT", Map(<<KV("logical_nodes",
              Map(<<KV("XCBR1", Map(<<KV("data_objects",
                  Map(<<KV("Pos", Map(<<KV("cdc", Str("DPC")), KV("attributes",
                      Map(<<KV("stVal", Map(<<KV("type", Str("BOOLEAN")),
                                              KV("value", stVal)>>)),
                            KV("ctlNum", Map(<<KV("type", Str("INT32")),
                                               KV("value", ctlNum)>>))>>))>>))>>))>>))>>))>>))>>))>>)

\* The payload fields of the requests that load, start, write and read the
\* data model of instance "a".
ValueFields(action) ==
    CASE action = "server.load_model" ->
            {<<KV("model", LeafModel(Bool(FALSE), PInt(3)))>>,
             <<KV("model", LeafModel(Bool(TRUE), NInt(-2)))>>}
      [] action = "server.set_data_value" ->
            {<<KV("reference", Str(r[1])), KV("value", r[2])>> :
                r \in {<<RefStVal, Bool(TRUE)>>, <<RefStVal, Bool(FALSE)>>,
                       <<RefStVal, PInt(1)>>,
                       <<RefCtlNum, PInt(7)>>, <<RefCtlNum, NInt(-1)>>,
                       <<RefCtlNum, Str("7")>>,
                       <<RefPos, Bool(TRUE)>>, <<RefAbsent, Bool(TRUE)>>}}
            \cup {<<KV("reference", Str(RefStVal))>>, <<KV("value", Bool(TRUE))>>}
      [] action = "server.get_values" ->
            {<<KV("references", Arr(<<Str(RefStVal)>>))>>,
             <<KV("references", Arr(<<Str(RefCtlNum)>>))>>,
             <<KV("references", Arr(<<Str(RefStVal), Str(RefCtlNum), Str(RefPos),
                                      Str(RefAbsent)>>))>>}
      [] OTHER -> {<<>>}

ValueRequests(action) ==
    {Envelope("r1", action, Map(<<KV("instance_id", Str("a"))>> \o f)) :
        f \in ValueFields(action)}

\* What the model lets the stack answer.
AcceptSets == {{}, {"SP", "MX"}, {"CF"}}
ReadValues == {Bool(TRUE)}

\* The enumerations of a finite set: the orders an unordered_map may iterate in.
Orders(S) == {f \in [1..Cardinality(S) -> S] : \A x \in S : \E i \in DOMAIN f : f[i] = x}

\* An env for a handler that takes nothing from outside.
NoEnv == [is_running |-> FALSE, connect_ok |-> FALSE, accepts |-> {}, value |-> Nil,
          order |-> <<>>]

\* ----------------------------------------------------------- state machine

VARIABLES
    context,         \* the BackendContext
    os_addrs,        \* the kernel's address table: the aliases on the interfaces
    request_bytes,   \* the request last dispatched
    response_bytes,  \* what handle_action returned for it
    calls,           \* the calls its handler made, in order
    lifecycle,       \* per instance id, how far load_model; start; stop has got
    history,         \* per instance id, the model description last loaded and
                     \* the value last written to each reference since
    worker_pc,       \* per pool worker, where it is with its task
    worker_task,     \* per pool worker, the request bytes of its task
    worker_response, \* per pool worker, what handle_action returned to it
    mutex,           \* the holder of the context's mutex
    first_locker,    \* the worker that took the mutex first
    task_queue,      \* task_queue_: the {client_fd, request_data} tasks not yet popped
    accepted,        \* how many frames the acceptor has read from the connection
    wire,            \* the response frames written to the connection, in order
    net_call,        \* the last direct call of the network module and what it returned
    pool_running_,   \* pool_running_: false once IpcServer::stop has stopped the pool
    connections,     \* the client connections the stack holds open, each with its peer address
    running_,        \* running_: false once IpcServer::stop has been entered
    fd_table,        \* the kernel's descriptor table: the connection each client fd number is open on
    epoll_set,       \* the client fds registered with epoll_fd_
    client_fds_,     \* client_fds_: the client fds the server tracks
    peers,           \* per connection, what its peer has done and the input not yet read
    received,        \* per connection, the writes made on it, in order
    close_calls,     \* per connection, the ::close calls that closed its descriptor, and
                     \* under NoConn those made on a number that was not open
    accept_pc,       \* where accept_loop_threaded is
    stop_pc,         \* where IpcServer::stop is
    queue_mutex_     \* queue_mutex_: the thread that holds the task queue's mutex

vars == <<context, os_addrs, request_bytes, response_bytes, calls, lifecycle, history,
          worker_pc, worker_task, worker_response, mutex, first_locker,
          task_queue, accepted, wire, net_call, pool_running_, connections, running_,
          fd_table, epoll_set, client_fds_, peers, received, close_calls, accept_pc, stop_pc,
          queue_mutex_>>

\* What the acceptor and the connection of the pipelined requests hold.
pipeVars == <<task_queue, accepted, wire>>

\* The stop flag of the worker pool.
stopVars == <<pool_running_>>

\* What the stack's connection thread holds.
stackVars == <<connections>>

\* What the acceptor and IpcServer::stop hold of the sockets.
ipcVars == <<running_>>

\* What the kernel, the acceptor and IpcServer::stop hold of the client sockets.
fdVars == <<fd_table, epoll_set, client_fds_, peers, received, close_calls, accept_pc, stop_pc>>

\* What the threads that wait on queue_cv_ share.
cvVars == <<queue_mutex_>>

\* The client connections made to the listening socket over a run.
MaxConns == 2
ConnIds == 1..MaxConns

\* No connection: what a descriptor number that is not open refers to, an id
\* past every connection's.
NoConn == MaxConns + 1

\* The descriptor numbers accept hands out, the lowest free one first.
Fds == 1..MaxConns

\* What the direct callers of the network module hold.
netVars == <<net_call>>

\* What the pool workers of the concurrent dispatch hold.
poolVars == <<worker_pc, worker_task, worker_response, mutex, first_locker>>

Workers == {"w1", "w2"}

\* No direct call of the network module has been made.
NoCall == [fn |-> "none"]

\* No worker holds the mutex.
FREE == "free"

\* No request has been dispatched yet.
NoBytes == [type |-> "NONE"]

now_iso == "2026-01-31T00:00:00Z"

Peers == {"192.0.2.7"}

\* The request of a response: what the handler was given.
DecodedAction(bytes) == decode_request(bytes).action
DecodedInstanceId(bytes) == extract_instance_id(decode_request(bytes).payload)

\* TRUE for the bytes of a response whose error entry is nil.
IsSuccess(response) ==
    /\ response.type = "MAP"
    /\ find_key(response, "error") = Nil

\* The progress of each instance id through load_model; start; stop, stepped
\* by a request that succeeded: load_model begins the sequence, start and stop
\* advance it, a further start or stop or a remove ends it.
LifecycleStep(lc, bytes, response) ==
    LET action == DecodedAction(bytes)
        id == DecodedInstanceId(bytes)
    IN IF bytes = Garbage \/ ~IsSuccess(response) \/ id \notin DOMAIN lc THEN lc
       ELSE CASE action = "server.load_model" -> [lc EXCEPT ![id] = 1]
              [] action = "server.start" -> [lc EXCEPT ![id] = IF @ = 1 THEN 2 ELSE 0]
              [] action = "server.stop" -> [lc EXCEPT ![id] = IF @ = 2 THEN 3 ELSE 0]
              [] action = "server.remove" -> [lc EXCEPT ![id] = 0]
              [] OTHER -> lc

\* The names a reference of the value requests is made of.
RefPath(reference) ==
    CASE reference = RefStVal -> <<"PROT", "XCBR1", "Pos", "stVal">>
      [] reference = RefCtlNum -> <<"PROT", "XCBR1", "Pos", "ctlNum">>
      [] reference = RefAbsent -> <<"PROT", "XCBR1", "Pos", "q">>
      [] reference = RefPos -> <<"PROT", "XCBR1", "Pos">>
      [] OTHER -> <<>>

\* What a model description declares for a leaf reference: the attribute's
\* entry, or NullObj for a reference that is absent or names no leaf.
DeclaredLeaf(model_obj, reference) ==
    LET path == RefPath(reference)
        Under(obj, key, name) == find_key(find_key(obj, key), name)
    IN IF Len(path) # 4 THEN NullObj
       ELSE Under(Under(Under(Under(model_obj, "logical_devices", path[1]),
                              "logical_nodes", path[2]),
                        "data_objects", path[3]),
                  "attributes", path[4])

\* Nothing loaded, nothing written.
NoHistory == [model |-> NullObj, written |-> <<>>]

\* What the requests that succeeded have loaded into and written to each
\* instance id: load_model names the model description and forgets the writes
\* to the model it replaces, set_data_value names a leaf reference of that
\* model and its value, remove forgets both.
HistoryStep(h, bytes, response) ==
    LET action == DecodedAction(bytes)
        id == DecodedInstanceId(bytes)
        payload == decode_request(bytes).payload
    IN IF bytes = Garbage \/ ~IsSuccess(response) \/ id \notin DOMAIN h THEN h
       ELSE CASE action = "server.load_model" ->
                    [h EXCEPT ![id] = [model |-> find_key(payload, "model"),
                                       written |-> <<>>]]
              [] action = "server.set_data_value" ->
                    IF DeclaredLeaf(h[id].model,
                                    as_string(find_key(payload, "reference"), "")) = NullObj
                    THEN h
                    ELSE [h EXCEPT ![id].written =
                            MapPut(@, as_string(find_key(payload, "reference"), ""),
                                   find_key(payload, "value"))]
              [] action = "server.remove" -> [h EXCEPT ![id] = NoHistory]
              [] OTHER -> h

Init ==
    /\ context = NewBackendContext
    /\ os_addrs = {}
    /\ request_bytes = NoBytes
    /\ response_bytes = NoBytes
    /\ calls = <<>>
    /\ lifecycle = [i \in InstanceIds |-> 0]
    /\ history = [i \in InstanceIds |-> NoHistory]
    /\ worker_pc = [w \in Workers |-> "waiting"]
    /\ worker_task = [w \in Workers |-> NoBytes]
    /\ worker_response = [w \in Workers |-> NoBytes]
    /\ mutex = FREE
    /\ first_locker = FREE
    /\ task_queue = <<>>
    /\ accepted = 0
    /\ wire = <<>>
    /\ net_call = NoCall
    /\ pool_running_ = TRUE
    /\ connections = {}
    /\ running_ = TRUE
    /\ fd_table = [fd \in Fds |-> NoConn]
    /\ epoll_set = {}
    /\ client_fds_ = {}
    /\ peers = [c \in ConnIds |-> [state |-> "unopened", stream |-> <<>>, sent |-> 0]]
    /\ received = [c \in ConnIds |-> <<>>]
    /\ close_calls = [c \in ConnIds \cup {NoConn} |-> 0]
    /\ accept_pc = [at |-> "poll"]
    /\ stop_pc = "running"
    /\ queue_mutex_ = FREE

\* The peer has the response to its last request, and the pool has no task.
Idle ==
    /\ response_bytes = NoBytes
    /\ \A w \in Workers : worker_pc[w] = "waiting"

\* handle_client_async up to the handler's return: one request through
\* handle_action.
Dispatch(bytes, env) ==
    \E r \in {handle_action(bytes, context, os_addrs, env)} :
    /\ UNCHANGED poolVars
    /\ UNCHANGED pipeVars
    /\ UNCHANGED netVars
    /\ UNCHANGED stopVars /\ UNCHANGED stackVars /\ UNCHANGED cvVars /\ UNCHANGED ipcVars /\ UNCHANGED fdVars
    /\ request_bytes' = bytes
    /\ response_bytes' = r.response
    /\ context' = r.ctx
    /\ os_addrs' = r.os
    /\ calls' = r.calls
    /\ lifecycle' = LifecycleStep(lifecycle, bytes, r.response)
    /\ history' = HistoryStep(history, bytes, r.response)

ServerLoadModel ==
    /\ Idle
    /\ \E b \in Requests("server.load_model") : Dispatch(b, NoEnv)

ServerStart ==
    /\ Idle
    /\ \E b \in Requests("server.start"), is_running \in BOOLEAN :
           Dispatch(b, [NoEnv EXCEPT !.is_running = is_running])

ServerStop ==
    /\ Idle
    /\ \E b \in Requests("server.stop") : Dispatch(b, NoEnv)

ServerRemove ==
    /\ Idle
    /\ \E b \in Requests("server.remove") : Dispatch(b, NoEnv)

ServerSetDataValue ==
    /\ Idle
    /\ \E b \in Requests("server.set_data_value") : Dispatch(b, NoEnv)

ServerGetValues ==
    /\ Idle
    /\ \E b \in Requests("server.get_values") : Dispatch(b, NoEnv)

ServerGetClients ==
    /\ Idle
    /\ \E b \in Requests("server.get_clients") : Dispatch(b, NoEnv)

ServerListInstances ==
    /\ Idle
    /\ \E b \in Requests("server.list_instances"),
          order \in Orders(DOMAIN context.server_instances) :
           Dispatch(b, [NoEnv EXCEPT !.order = order])

ServerGetInterfaces ==
    /\ Idle
    /\ \E b \in Requests("server.get_interfaces") : Dispatch(b, NoEnv)

ServerSetInterface ==
    /\ Idle
    /\ \E b \in Requests("server.set_interface") : Dispatch(b, NoEnv)

ClientConnect ==
    /\ Idle
    /\ \E b \in Requests("client.connect"), connect_ok \in BOOLEAN :
           Dispatch(b, [NoEnv EXCEPT !.connect_ok = connect_ok])

ClientDisconnect ==
    /\ Idle
    /\ \E b \in Requests("client.disconnect") : Dispatch(b, NoEnv)

ClientBrowse ==
    /\ Idle
    /\ \E b \in Requests("client.browse") : Dispatch(b, NoEnv)

ClientRead ==
    /\ Idle
    /\ \E b \in Requests("client.read"), accepts \in AcceptSets, value \in ReadValues :
           Dispatch(b, [NoEnv EXCEPT !.accepts = accepts, !.value = value])

ClientReadBatch ==
    /\ Idle
    /\ \E b \in Requests("client.read_batch"), accepts \in AcceptSets, value \in ReadValues :
           Dispatch(b, [NoEnv EXCEPT !.accepts = accepts, !.value = value])

ClientWrite ==
    /\ Idle
    /\ \E b \in Requests("client.write"), accepts \in AcceptSets :
           Dispatch(b, [NoEnv EXCEPT !.accepts = accepts])

ClientListInstances ==
    /\ Idle
    /\ \E b \in Requests("client.list_instances"),
          order \in Orders(DOMAIN context.client_instances) :
           Dispatch(b, [NoEnv EXCEPT !.order = order])

\* A request for an action the registry does not hold.
UnknownAction ==
    /\ Idle
    /\ \E b \in UnknownRequests : Dispatch(b, NoEnv)

\* Bytes that do not decode.
DecodeError ==
    /\ Idle
    /\ Dispatch(Garbage, NoEnv)

\* send_response: the frame is written and the worker takes the next task.
send_response ==
    /\ response_bytes # NoBytes
    /\ request_bytes' = NoBytes
    /\ response_bytes' = NoBytes
    /\ calls' = <<>>
    /\ UNCHANGED <<context, os_addrs, lifecycle, history>>
    /\ UNCHANGED poolVars
    /\ UNCHANGED pipeVars
    /\ UNCHANGED netVars
    /\ UNCHANGED stopVars /\ UNCHANGED stackVars /\ UNCHANGED cvVars /\ UNCHANGED ipcVars /\ UNCHANGED fdVars

\* on_connection_event, called by the stack of an instance whose server exists:
\* a peer connects to a listening server, or a connected peer goes away. It
\* touches nothing send_response touches, so it is taken between requests.
ConnectionEvent ==
    \E instance_id \in DOMAIN context.server_instances, peer \in Peers, connected \in BOOLEAN :
        LET inst == get_server_instance(context, instance_id) IN
        /\ Idle
        /\ inst.server # NULL
        /\ IF connected
           THEN inst.running /\ Len(inst.clients) < MaxClients
           ELSE \E i \in 1..Len(inst.clients) : inst.clients[i].id = peer
        /\ context' = SetServer(context, instance_id,
              [inst EXCEPT !.clients =
                  IF connected
                  THEN Append(@, [id |-> peer, connected_at |-> now_iso])
                  ELSE SelectSeq(@, LAMBDA info : info.id # peer)])
        /\ UNCHANGED <<os_addrs, request_bytes, response_bytes, calls, lifecycle, history>>
        /\ UNCHANGED poolVars
        /\ UNCHANGED pipeVars
        /\ UNCHANGED netVars
        /\ UNCHANGED stopVars /\ UNCHANGED stackVars /\ UNCHANGED cvVars /\ UNCHANGED ipcVars /\ UNCHANGED fdVars

Next ==
    \/ ServerLoadModel
    \/ ServerStart
    \/ ServerStop
    \/ ServerRemove
    \/ ServerSetDataValue
    \/ ServerGetValues
    \/ ServerGetClients
    \/ ServerListInstances
    \/ ServerGetInterfaces
    \/ ServerSetInterface
    \/ UnknownAction
    \/ DecodeError
    \/ send_response
    \/ ConnectionEvent

\* The server side of the daemon: the server.* actions, the requests no
\* handler takes, and the stack's connection callback.
Spec == Init /\ [][Next]_vars

NextClient ==
    \/ ClientConnect
    \/ ClientDisconnect
    \/ ClientBrowse
    \/ ClientRead
    \/ ClientReadBatch
    \/ ClientWrite
    \/ ClientListInstances
    \/ send_response

\* The client side of the daemon: the client.* actions, which touch only the
\* client instances.
SpecClient == Init /\ [][NextClient]_vars

\* ------------------------------------------------------- data values

\* server.load_model of a model that holds data attributes.
LoadLeafModel ==
    /\ Idle
    /\ \E b \in ValueRequests("server.load_model") : Dispatch(b, NoEnv)

StartLeafServer ==
    /\ Idle
    /\ \E b \in ValueRequests("server.start"), is_running \in BOOLEAN :
           Dispatch(b, [NoEnv EXCEPT !.is_running = is_running])

SetLeafValue ==
    /\ Idle
    /\ \E b \in ValueRequests("server.set_data_value") : Dispatch(b, NoEnv)

GetLeafValues ==
    /\ Idle
    /\ \E b \in ValueRequests("server.get_values") : Dispatch(b, NoEnv)

NextValues ==
    \/ LoadLeafModel
    \/ StartLeafServer
    \/ ServerStop
    \/ SetLeafValue
    \/ GetLeafValues
    \/ send_response

\* One instance whose model holds data attributes: it is loaded, started and
\* stopped, and its attributes are written and read.
SpecValues == Init /\ [][NextValues]_vars

\* ------------------------------------------------- concurrent dispatch

\* The accept loop queues, for two pool workers, a server.remove and a
\* server.start of instance "a", which has a loaded model.
Enqueue ==
    \E f \in Fields("server.start", "a") :
        /\ Idle
        /\ has_server_instance(context, "a")
        /\ get_server_instance(context, "a").model # NULL
        /\ worker_pc' = [w \in Workers |-> "queued"]
        /\ worker_task' =
              [w \in Workers |->
                  IF w = "w1"
                  THEN Envelope("r1", "server.remove", Map(<<KV("instance_id", Str("a"))>>))
                  ELSE Envelope("r2", "server.start",
                                Map(<<KV("instance_id", Str("a"))>> \o f))]
        /\ UNCHANGED <<context, os_addrs, request_bytes, response_bytes, calls, lifecycle, history,
                       worker_response, mutex, first_locker>>
        /\ UNCHANGED pipeVars
        /\ UNCHANGED netVars
        /\ UNCHANGED stopVars /\ UNCHANGED stackVars /\ UNCHANGED cvVars /\ UNCHANGED ipcVars /\ UNCHANGED fdVars

\* A worker's handler takes the context's mutex (std::lock_guard).
WorkerLock(w) ==
    /\ worker_pc[w] = "queued"
    /\ mutex = FREE
    /\ mutex' = w
    /\ worker_pc' = [worker_pc EXCEPT ![w] = "locked"]
    /\ first_locker' = IF first_locker = FREE THEN w ELSE first_locker
    /\ UNCHANGED <<context, os_addrs, request_bytes, response_bytes, calls, lifecycle, history,
                   worker_task, worker_response>>
    /\ UNCHANGED pipeVars
    /\ UNCHANGED netVars
    /\ UNCHANGED stopVars /\ UNCHANGED stackVars /\ UNCHANGED cvVars /\ UNCHANGED ipcVars /\ UNCHANGED fdVars

\* The handler runs to its return under the mutex, which its return releases.
WorkerRun(w) ==
    \E is_running \in BOOLEAN :
        \E r \in {handle_action(worker_task[w], context, os_addrs,
                                [NoEnv EXCEPT !.is_running = is_running])} :
        /\ worker_pc[w] = "locked"
        /\ mutex = w
        /\ context' = r.ctx
        /\ os_addrs' = r.os
        /\ worker_response' = [worker_response EXCEPT ![w] = r.response]
        /\ worker_pc' = [worker_pc EXCEPT ![w] = "responded"]
        /\ mutex' = FREE
        /\ history' = HistoryStep(history, worker_task[w], r.response)
        /\ UNCHANGED <<request_bytes, response_bytes, calls, lifecycle, worker_task,
                       first_locker>>
        /\ UNCHANGED pipeVars
        /\ UNCHANGED netVars
        /\ UNCHANGED stopVars /\ UNCHANGED stackVars /\ UNCHANGED cvVars /\ UNCHANGED ipcVars /\ UNCHANGED fdVars

\* The worker writes its response frame.
WorkerSend(w) ==
    /\ worker_pc[w] = "responded"
    /\ worker_pc' = [worker_pc EXCEPT ![w] = "sent"]
    /\ UNCHANGED <<context, os_addrs, request_bytes, response_bytes, calls, lifecycle, history,
                   worker_task, worker_response, mutex, first_locker>>
    /\ UNCHANGED pipeVars
    /\ UNCHANGED netVars
    /\ UNCHANGED stopVars /\ UNCHANGED stackVars /\ UNCHANGED cvVars /\ UNCHANGED ipcVars /\ UNCHANGED fdVars

NextRace ==
    \/ ServerLoadModel
    \/ ServerStart
    \/ ServerStop
    \/ ServerSetInterface
    \/ send_response
    \/ Enqueue
    \/ \E w \in Workers : WorkerLock(w)
    \/ \E w \in Workers : WorkerRun(w)
    \/ \E w \in Workers : WorkerSend(w)

\* Two pool workers handling server.remove and server.start of one instance
\* at the same time, after requests that were handled one by one.
SpecRace == Init /\ [][NextRace]_vars

\* ------------------------------------------------- pipelined requests

\* The frames one peer pipelines on its connection before it reads a response.
MaxPipelined == 3

\* The connection's descriptor.
ClientFd == "client_fd"

\* The id of the n-th frame the peer sends.
FrameId(n) == "r" \o ToString(n)

\* The n-th frame: a request whose handler reads the registry.
Frames(n) ==
    {Envelope(FrameId(n), action, Map(<<KV("instance_id", Str("a"))>>)) :
        action \in {"server.list_instances", "server.get_clients"}}

\* accept_loop_threaded on EPOLLIN of the connection: read_request takes one
\* frame, which is pushed to the task queue.
AcceptFrame ==
    \E request_data \in Frames(accepted + 1) :
        /\ accepted < MaxPipelined
        /\ response_bytes = NoBytes
        /\ task_queue' = Append(task_queue, [client_fd |-> ClientFd,
                                             request_data |-> request_data])
        /\ accepted' = accepted + 1
        /\ UNCHANGED <<context, os_addrs, request_bytes, response_bytes, calls, lifecycle,
                       history, wire>>
        /\ UNCHANGED poolVars
        /\ UNCHANGED netVars
        /\ UNCHANGED stopVars /\ UNCHANGED stackVars /\ UNCHANGED cvVars /\ UNCHANGED ipcVars /\ UNCHANGED fdVars

\* worker_thread_func under queue_mutex_: a waiting worker pops the front task.
WorkerPop(w) ==
    /\ worker_pc[w] = "waiting"
    /\ task_queue # <<>>
    /\ worker_task' = [worker_task EXCEPT ![w] = Head(task_queue).request_data]
    /\ task_queue' = Tail(task_queue)
    /\ worker_pc' = [worker_pc EXCEPT ![w] = "popped"]
    /\ UNCHANGED <<context, os_addrs, request_bytes, response_bytes, calls, lifecycle,
                   history, worker_response, mutex, first_locker, accepted, wire>>
    /\ UNCHANGED netVars
    /\ UNCHANGED stopVars /\ UNCHANGED stackVars /\ UNCHANGED cvVars /\ UNCHANGED ipcVars /\ UNCHANGED fdVars

\* handle_client_async up to the handler's return, outside queue_mutex_.
WorkerHandle(w) ==
    \E r \in {handle_action(worker_task[w], context, os_addrs, NoEnv)} :
        /\ worker_pc[w] = "popped"
        /\ context' = r.ctx
        /\ os_addrs' = r.os
        /\ worker_response' = [worker_response EXCEPT ![w] = r.response]
        /\ worker_pc' = [worker_pc EXCEPT ![w] = "handled"]
        /\ history' = HistoryStep(history, worker_task[w], r.response)
        /\ UNCHANGED <<request_bytes, response_bytes, calls, lifecycle, worker_task,
                       mutex, first_locker>>
        /\ UNCHANGED pipeVars
        /\ UNCHANGED netVars
        /\ UNCHANGED stopVars /\ UNCHANGED stackVars /\ UNCHANGED cvVars /\ UNCHANGED ipcVars /\ UNCHANGED fdVars

\* send_response of handle_client_async: the worker writes its response frame
\* to the task's descriptor and waits for the next task.
WorkerWrite(w) ==
    /\ worker_pc[w] = "handled"
    /\ wire' = Append(wire, worker_response[w])
    /\ worker_pc' = [worker_pc EXCEPT ![w] = "waiting"]
    /\ worker_task' = [worker_task EXCEPT ![w] = NoBytes]
    /\ worker_response' = [worker_response EXCEPT ![w] = NoBytes]
    /\ UNCHANGED <<context, os_addrs, request_bytes, response_bytes, calls, lifecycle,
                   history, mutex, first_locker, task_queue, accepted>>
    /\ UNCHANGED netVars
    /\ UNCHANGED stopVars /\ UNCHANGED stackVars /\ UNCHANGED cvVars /\ UNCHANGED ipcVars /\ UNCHANGED fdVars

NextPipeline ==
    \/ AcceptFrame
    \/ \E w \in Workers : WorkerPop(w)
    \/ \E w \in Workers : WorkerHandle(w)
    \/ \E w \in Workers : WorkerWrite(w)

\* One peer pipelines requests on one connection; the acceptor queues them
\* and the pool's workers handle them.
SpecPipeline == Init /\ [][NextPipeline]_vars

\* ------------------------------------------------------ stopping the pool

\* accept_loop_threaded queues a frame while the server runs.
AcceptWhileRunning ==
    /\ pool_running_
    /\ AcceptFrame

\* IpcServer::stop: pool_running_ is cleared and every worker is notified;
\* stop then joins the workers.
IpcServerStop ==
    /\ pool_running_
    /\ pool_running_' = FALSE
    /\ running_' = FALSE
    /\ UNCHANGED <<context, os_addrs, request_bytes, response_bytes, calls, lifecycle,
                   history>>
    /\ UNCHANGED poolVars
    /\ UNCHANGED pipeVars
    /\ UNCHANGED netVars
    /\ UNCHANGED stackVars /\ UNCHANGED cvVars
    /\ UNCHANGED fdVars

\* worker_thread_func at `while (pool_running_)`: the worker goes on to wait
\* on queue_cv_, or leaves the loop.
WorkerLoop(w) ==
    /\ worker_pc[w] = "waiting"
    /\ worker_pc' = [worker_pc EXCEPT ![w] = IF pool_running_ THEN "blocked" ELSE "exited"]
    /\ UNCHANGED <<context, os_addrs, request_bytes, response_bytes, calls, lifecycle,
                   history, worker_task, worker_response, mutex, first_locker>>
    /\ UNCHANGED pipeVars
    /\ UNCHANGED netVars
    /\ UNCHANGED stopVars /\ UNCHANGED stackVars /\ UNCHANGED cvVars /\ UNCHANGED ipcVars /\ UNCHANGED fdVars

\* worker_thread_func under queue_mutex_ when queue_cv_.wait returns (the
\* queue is not empty or the pool is stopped): the worker returns if the pool
\* is stopped and the queue is empty, and pops the front task otherwise.
WorkerWake(w) ==
    /\ worker_pc[w] = "blocked"
    /\ task_queue # <<>> \/ ~pool_running_
    /\ IF ~pool_running_ /\ task_queue = <<>>
       THEN /\ worker_pc' = [worker_pc EXCEPT ![w] = "exited"]
            /\ UNCHANGED <<worker_task, task_queue>>
       ELSE /\ worker_task' = [worker_task EXCEPT ![w] = Head(task_queue).request_data]
            /\ task_queue' = Tail(task_queue)
            /\ worker_pc' = [worker_pc EXCEPT ![w] = "popped"]
    /\ UNCHANGED <<context, os_addrs, request_bytes, response_bytes, calls, lifecycle,
                   history, worker_response, mutex, first_locker, accepted, wire>>
    /\ UNCHANGED netVars
    /\ UNCHANGED stopVars /\ UNCHANGED stackVars /\ UNCHANGED cvVars /\ UNCHANGED ipcVars /\ UNCHANGED fdVars

NextStop ==
    \/ AcceptWhileRunning
    \/ IpcServerStop
    \/ \E w \in Workers : WorkerLoop(w)
    \/ \E w \in Workers : WorkerWake(w)
    \/ \E w \in Workers : WorkerHandle(w)
    \/ \E w \in Workers : WorkerWrite(w)

\* The pool's workers take the frames the acceptor queued while
\* IpcServer::stop stops the pool.
SpecStop == Init /\ [][NextStop]_vars

\* ---------------------------------------------------- instance listing

\* The payload fields of the requests that load and start the listed
\* instances: models with and without a name, configs with and without a port.
ListedFields(action, id) ==
    CASE action = "server.load_model" ->
            IF id = "a"
            THEN {<<KV("model", Map(<<KV("name", Str("IED_A")),
                                      KV("logical_devices", Map(<<>>))>>))>>,
                  <<KV("model", Map(<<KV("logical_devices", Map(<<>>))>>)),
                    KV("config", Map(<<KV("port", PInt(8102))>>))>>}
            ELSE {<<KV("model", Map(<<KV("name", Str("IED_B")),
                                      KV("logical_devices", Map(<<>>))>>)),
                    KV("config", Map(<<KV("port", PInt(10102))>>))>>}
      [] action = "server.start" ->
            {<<>>, <<KV("config", Map(<<KV("port", PInt(10102))>>))>>}
      [] OTHER -> {<<>>}

ListedRequests(action) ==
    UNION {{Envelope("r1", action, Map(<<KV("instance_id", Str(i))>> \o f)) :
               f \in ListedFields(action, i)} : i \in InstanceIds}

LoadListed ==
    /\ Idle
    /\ \E b \in ListedRequests("server.load_model") : Dispatch(b, NoEnv)

StartListed ==
    /\ Idle
    /\ \E b \in ListedRequests("server.start"), is_running \in BOOLEAN :
           Dispatch(b, [NoEnv EXCEPT !.is_running = is_running])

StopListed ==
    /\ Idle
    /\ \E b \in ListedRequests("server.stop") : Dispatch(b, NoEnv)

RemoveListed ==
    /\ Idle
    /\ \E b \in ListedRequests("server.remove") : Dispatch(b, NoEnv)

NextList ==
    \/ LoadListed
    \/ StartListed
    \/ StopListed
    \/ RemoveListed
    \/ ServerListInstances
    \/ send_response

\* Two instances are loaded, started on a port, stopped and removed, and the
\* registry is listed.
SpecList == Init /\ [][NextList]_vars

\* ------------------------------------------------------ network module

\* The interface names, addresses and labels the direct calls are made with:
\* an interface that does not resolve, 0.0.0.0 and a 127.* address among them.
NetInterfaces == OsInterfaces \cup {"eth9"}
NetIps == {IpA, IpB, Loopback, WILDCARD}
NetLabels == {"", AliasLabel("eth0", "a")}

\* A call of the network module as net_call keeps it: the arguments, what
\* netlink answered, what the call returned and the address table before it.
NetCall(fn, interface_name, ip_address, nl, r, os) ==
    [fn |-> fn, interface_name |-> interface_name, ip_address |-> ip_address,
     nl |-> nl, ok |-> r.ok, os |-> os]

\* network::add_ip_address(interface_name, ip_address, 24, label).
AddIpAddress ==
    \E interface_name \in NetInterfaces, ip_address \in NetIps, label \in NetLabels,
       nl \in NlAnswers :
        \E r \in {add_ip_address(os_addrs, interface_name, ip_address,
                                 DefaultGlobalPrefixLen, label, nl)} :
            /\ os_addrs' = r.os
            /\ calls' = r.calls
            /\ net_call' = NetCall("add_ip_address", interface_name, ip_address, nl, r,
                                   os_addrs)
            /\ UNCHANGED <<context, request_bytes, response_bytes, lifecycle, history>>
            /\ UNCHANGED poolVars
            /\ UNCHANGED pipeVars
            /\ UNCHANGED stopVars /\ UNCHANGED stackVars /\ UNCHANGED cvVars /\ UNCHANGED ipcVars /\ UNCHANGED fdVars

\* network::remove_ip_address(interface_name, ip_address, 24).
RemoveIpAddress ==
    \E interface_name \in NetInterfaces, ip_address \in NetIps, nl \in NlAnswers :
        \E r \in {remove_ip_address(os_addrs, interface_name, ip_address,
                                    DefaultGlobalPrefixLen, nl)} :
            /\ os_addrs' = r.os
            /\ calls' = r.calls
            /\ net_call' = NetCall("remove_ip_address", interface_name, ip_address, nl, r,
                                   os_addrs)
            /\ UNCHANGED <<context, request_bytes, response_bytes, lifecycle, history>>
            /\ UNCHANGED poolVars
            /\ UNCHANGED pipeVars
            /\ UNCHANGED stopVars /\ UNCHANGED stackVars /\ UNCHANGED cvVars /\ UNCHANGED ipcVars /\ UNCHANGED fdVars

NextNetwork ==
    \/ AddIpAddress
    \/ RemoveIpAddress

\* A caller adds and removes addresses through the network module.
SpecNetwork == Init /\ [][NextNetwork]_vars

\* ---------------------------------------------------------------- properties

\* The envelope of an error response, as the protocol writes it.
ErrorEnvelope(id, message) ==
    Map(<<KV("id", Str(id)), KV("type", Str("response")), KV("payload", Map(<<>>)),
          KV("error", Map(<<KV("message", Str(message))>>))>>)

\* A step in which a request is handled: a response is there afterwards.
Handled == response_bytes = NoBytes /\ response_bytes' # NoBytes

\* The registry, server instances and global interface fields are what they were.
ServerSideUnchanged ==
    /\ context'.server_instances = context.server_instances
    /\ context'.global_interface_name = context.global_interface_name
    /\ context'.global_prefix_len = context.global_prefix_len

ServerActions ==
    {"server.start", "server.stop", "server.remove", "server.load_model",
     "server.set_data_value", "server.get_values", "server.get_clients",
     "server.list_instances", "server.get_interfaces", "server.set_interface"}

InstanceActions ==
    {"server.load_model", "server.start", "server.stop", "server.remove",
     "server.set_data_value", "server.get_values", "server.get_clients"}

\* C1: the response to every request that decodes, whatever its action, is a
\* map with exactly the keys id, type, payload, error in that order, with type
\* "response" and the request's id.
C1_ResponseEnvelope ==
    (response_bytes # NoBytes /\ request_bytes # Garbage) =>
        /\ response_bytes.type = "MAP"
        /\ [i \in 1..Len(response_bytes.map) |-> response_bytes.map[i].key]
              = <<Str("id"), Str("type"), Str("payload"), Str("error")>>
        /\ response_bytes.map[1].val = Str(decode_request(request_bytes).id)
        /\ response_bytes.map[2].val = Str("response")

\* C2: a decodable request for an action the registry does not hold gets the
\* response {id, "response", {}, {message: "Unknown action"}}, and both
\* instance maps and the global interface fields stay as they were.
C2_UnknownAction ==
    [][(/\ Handled
        /\ request_bytes' # Garbage
        /\ decode_request(request_bytes').action \notin ActionRegistry)
       => /\ response_bytes'
               = ErrorEnvelope(decode_request(request_bytes').id, "Unknown action")
          /\ ServerSideUnchanged
          /\ context'.client_instances = context.client_instances]_vars

\* C3: in every response the payload is a map, and either the error is nil or
\* the error is a map {message: <string>} and the payload is the empty map;
\* client.write whose every functional constraint fails is no exception.
C3_PayloadOrError ==
    response_bytes # NoBytes =>
        /\ response_bytes.type = "MAP"
        /\ LET payload == find_key(response_bytes, "payload")
               error == find_key(response_bytes, "error")
           IN /\ payload.type = "MAP"
              /\ \/ error = Nil
                 \/ /\ error.type = "MAP"
                    /\ find_key(error, "message").type = "STR"
                    /\ payload = Map(<<>>)

\* The instance_id a payload map carries is absent, empty or no string.
NoInstanceId(payload) ==
    /\ payload.type = "MAP"
    /\ LET id_obj == find_key(payload, "instance_id")
       IN id_obj = NullObj \/ id_obj.type # "STR" \/ id_obj.str = ""

\* C4: server.load_model, start, stop, remove, set_data_value, get_values and
\* get_clients answer a payload map whose instance_id is absent, empty or no
\* string with the error "instance_id is required", and leave the instance
\* map, every instance's fields and the global interface fields as they were.
C4_InstanceIdRequired ==
    [][(/\ Handled
        /\ request_bytes' # Garbage
        /\ decode_request(request_bytes').action \in InstanceActions
        /\ decode_request(request_bytes').has_payload
        /\ NoInstanceId(decode_request(request_bytes').payload))
       => /\ response_bytes'
               = ErrorEnvelope(decode_request(request_bytes').id, "instance_id is required")
          /\ ServerSideUnchanged
          /\ os_addrs' = os_addrs]_vars

\* A request without a usable instance_id was answered while an instance
\* with a server was in the registry.
C4_Witness ==
    /\ response_bytes # NoBytes
    /\ request_bytes # Garbage
    /\ decode_request(request_bytes).action = "server.remove"
    /\ decode_request(request_bytes).has_payload
    /\ NoInstanceId(decode_request(request_bytes).payload)
    /\ find_key(decode_request(request_bytes).payload, "instance_id") = PInt(7)
    /\ \E i \in DOMAIN context.server_instances : context.server_instances[i].server # NULL

\* C5: every server.* action answers a request with no payload key, or with a
\* payload that is no map, with the error "Missing payload", and returns
\* before touching the registry: no instance is created or changed.
C5_MissingPayload ==
    [][(/\ Handled
        /\ request_bytes' # Garbage
        /\ decode_request(request_bytes').action \in ServerActions
        /\ \/ ~decode_request(request_bytes').has_payload
           \/ decode_request(request_bytes').payload.type # "MAP")
       => /\ response_bytes'
               = ErrorEnvelope(decode_request(request_bytes').id, "Missing payload")
          /\ ServerSideUnchanged
          /\ os_addrs' = os_addrs]_vars

\* server.load_model was answered for a payload that is a string, with an
\* instance in the registry.
C5_Witness ==
    /\ response_bytes # NoBytes
    /\ request_bytes # Garbage
    /\ decode_request(request_bytes).action = "server.load_model"
    /\ decode_request(request_bytes).has_payload
    /\ decode_request(request_bytes).payload.type = "STR"
    /\ DOMAIN context.server_instances # {}

\* The request answered last, as the handler saw it.
LastAction == decode_request(request_bytes).action
LastInstanceId == extract_instance_id(decode_request(request_bytes).payload)

\* C6: once server.remove(id) returns success, the registry (and so
\* server.list_instances) no longer holds id, and no alias the daemon added
\* under the label <iface>:iec<id> remains on an interface.
C6_RemoveLeavesNothing ==
    (/\ response_bytes # NoBytes
     /\ request_bytes # Garbage
     /\ LastAction = "server.remove"
     /\ IsSuccess(response_bytes)
     /\ LastInstanceId # "")
    => /\ ~has_server_instance(context, LastInstanceId)
       /\ \A a \in os_addrs : a.label # AliasLabel(a.ifname, LastInstanceId)

\* C7: after server.load_model(id), server.start(id) and server.stop(id), in
\* that order, id is in the registry with running false, a model and the
\* server object it was started with.
C7_StopKeepsInstance ==
    \A id \in InstanceIds :
        lifecycle[id] = 3 =>
            /\ has_server_instance(context, id)
            /\ get_server_instance(context, id).running = FALSE
            /\ get_server_instance(context, id).model # NULL
            /\ get_server_instance(context, id).server # NULL

\* server.stop has just stopped the listening server of an instance that was
\* loaded and started.
C7_Witness ==
    /\ lifecycle["a"] = 3
    /\ response_bytes # NoBytes
    /\ request_bytes # Garbage
    /\ LastAction = "server.stop"
    /\ LastInstanceId = "a"
    /\ calls = <<"IedServer_stop">>

\* C8: every instance in the registry has a model when it has a server, and
\* a server when it is running, after server.load_model on a running
\* instance as after anything else.
C8_OwnershipOrder ==
    \A id \in DOMAIN context.server_instances :
        LET inst == get_server_instance(context, id)
        IN /\ inst.server # NULL => inst.model # NULL
           /\ inst.running => inst.server # NULL

\* The place of each release step in an order of the steps.
RankIn(order, step) == CHOOSE i \in 1..Len(order) : order[i] = step

\* The calls were made in the order given, none twice.
InOrder(order, made) ==
    /\ \A i \in 1..Len(made) : \E j \in 1..Len(order) : order[j] = made[i]
    /\ \A i, j \in 1..Len(made) : i < j => RankIn(order, made[i]) < RankIn(order, made[j])

\* server.remove has just removed an instance that was in the registry.
Removed ==
    /\ response_bytes # NoBytes
    /\ request_bytes # Garbage
    /\ LastAction = "server.remove"
    /\ calls # <<>>

\* C9 as stated: server.remove stops the server, destroys the server, the
\* config and the model, clears the client list, removes the IP alias and
\* erases the instance, in that order.
C9_AliasAfterClients ==
    Removed =>
        InOrder(<<"IedServer_stop", "IedServer_destroy", "IedServerConfig_destroy",
                  "IedModel_destroy", "clients.clear", "remove_ip_address",
                  "remove_server_instance">>, calls)

\* C9, amended: server.remove removes the IP alias (if ip_configured and an
\* interface is set) first, then stops the server (if running), destroys the
\* server, the config and the model, clears the client list and erases the
\* instance, in that order.
C9_ReleaseOrder ==
    Removed =>
        /\ InOrder(<<"remove_ip_address", "IedServer_stop", "IedServer_destroy",
                     "IedServerConfig_destroy", "IedModel_destroy", "clients.clear",
                     "remove_server_instance">>, calls)
        /\ calls[Len(calls)] = "remove_server_instance"
        /\ calls[Len(calls) - 1] = "clients.clear"

\* server.remove has taken every release step: the instance was running and
\* had an alias.
C9_Witness == Removed /\ Len(calls) = 7

\* Both workers have their responses.
BothResponded == \A w \in Workers : worker_pc[w] \in {"responded", "sent"}

\* C10 as stated: of a server.remove and a server.start of one loaded
\* instance handled at the same time, exactly one gets a success response.
C10_ExactlyOneSucceeds ==
    BothResponded => (IsSuccess(worker_response["w1"]) # IsSuccess(worker_response["w2"]))

\* C10, amended: server.remove always gets the success response and the
\* instance is gone when both have returned; server.start gets a success
\* response exactly when it took the mutex first, and otherwise the error
\* "Server not initialized. Call server.load_model first".
C10_SerializedOutcome ==
    BothResponded =>
        /\ worker_response["w1"]
              = Map(<<KV("id", Str("r1")), KV("type", Str("response")),
                      KV("payload", Map(<<KV("success", Bool(TRUE))>>)),
                      KV("error", Nil)>>)
        /\ ~has_server_instance(context, "a")
        /\ IsSuccess(worker_response["w2"]) <=> first_locker = "w2"
        /\ first_locker = "w1" =>
              worker_response["w2"]
                 = ErrorEnvelope("r2", "Server not initialized. Call server.load_model first")

\* Both workers have returned, server.start having taken the mutex first and
\* reported a listening server, and both responses are success responses.
C10_Witness ==
    /\ BothResponded
    /\ first_locker = "w2"
    /\ IsSuccess(worker_response["w1"])
    /\ IsSuccess(worker_response["w2"])
    /\ find_key(find_key(worker_response["w2"], "payload"), "success") = Bool(TRUE)


\* The response to a request of the given action is there.
Answered(action) ==
    /\ response_bytes # NoBytes
    /\ request_bytes # Garbage
    /\ DecodedAction(request_bytes) = action

\* The references a server.get_values request asks for.
AskedReferences ==
    LET refs_obj == find_key(decode_request(request_bytes).payload, "references")
    IN IF refs_obj.type = "ARRAY"
       THEN {as_string(refs_obj.array[i], "") : i \in 1..Len(refs_obj.array)}
       ELSE {}

\* The triple a server.get_values response holds for a reference.
AnsweredValue(reference) ==
    find_key(find_key(find_key(response_bytes, "payload"), "values"), reference)

\* The answer is for a model that was loaded and not written to since.
FreshModel ==
    /\ Answered("server.get_values")
    /\ DecodedInstanceId(request_bytes) \in InstanceIds
    /\ find_key(decode_request(request_bytes).payload, "references").type = "ARRAY"
    /\ history[DecodedInstanceId(request_bytes)].model # NullObj
    /\ history[DecodedInstanceId(request_bytes)].written = <<>>

FitsType(type, value_obj) ==
    \/ type = "BOOLEAN" /\ value_obj.type = "BOOLEAN"
    \/ /\ type \in Int32Types \cup {"INT64"}
       /\ value_obj.type \in {"POSITIVE_INTEGER", "NEGATIVE_INTEGER"}

\* The reference names a BOOLEAN or integer attribute of the loaded model, and
\* the value last written to it since is of that type.
WrittenTyped(id, r) ==
    /\ r \in DOMAIN history[id].written
    /\ DeclaredLeaf(history[id].model, r) # NullObj
    /\ FitsType(map_type(as_string(find_key(DeclaredLeaf(history[id].model, r), "type"), "")),
                history[id].written[r])

C13_ResponsesInOrder ==
    \A i \in 1..Len(wire) : find_key(wire[i], "id") = Str(FrameId(i))


\* The envelope of a success response.
SuccessEnvelope(id, payload) ==
    Map(<<KV("id", Str(id)), KV("type", Str("response")), KV("payload", payload),
          KV("error", Nil)>>)

\* A step that handles a request for the action whose payload is a map with
\* a usable instance_id.
HandledFor(action) ==
    /\ Handled
    /\ request_bytes' # Garbage
    /\ decode_request(request_bytes').action = action
    /\ decode_request(request_bytes').has_payload
    /\ decode_request(request_bytes').payload.type = "MAP"
    /\ ~NoInstanceId(decode_request(request_bytes').payload)

\* The id and the instance_id of the request such a step handles.
HandledId == decode_request(request_bytes').id
HandledInstanceId == extract_instance_id(decode_request(request_bytes').payload)

\* C14: server.get_clients for an instance_id the registry does not hold
\* answers success with the empty clients array and error nil, and creates no
\* instance.
C14_GetClientsOfAbsent ==
    [][(/\ HandledFor("server.get_clients")
        /\ ~has_server_instance(context, HandledInstanceId))
       => /\ response_bytes'
               = SuccessEnvelope(HandledId, Map(<<KV("clients", Arr(<<>>))>>))
          /\ context' = context]_vars

\* server.get_clients was answered for an id the registry does not hold,
\* beside an instance it does hold.
C14_Witness ==
    /\ Answered("server.get_clients")
    /\ LastInstanceId = "b"
    /\ ~has_server_instance(context, "b")
    /\ has_server_instance(context, "a")
    /\ IsSuccess(response_bytes)

\* C15: server.start for an instance_id the registry does not hold, or whose
\* instance has no model, answers the error "Server not initialized. Call
\* server.load_model first", creates no instance, no server and no config,
\* adds no alias and leaves running as it was.
C15_StartNeedsModel ==
    [][(/\ HandledFor("server.start")
        /\ \/ ~has_server_instance(context, HandledInstanceId)
           \/ get_server_instance(context, HandledInstanceId).model = NULL)
       => /\ response_bytes' = ErrorEnvelope(HandledId,
                                   "Server not initialized. Call server.load_model first")
          /\ context' = context
          /\ os_addrs' = os_addrs
          /\ calls' = <<>>]_vars

\* server.start was refused for an id the registry does not hold, with an
\* interface set to put aliases on.
C15_Witness ==
    /\ Answered("server.start")
    /\ LastInstanceId = "a"
    /\ ~has_server_instance(context, "a")
    /\ context.global_interface_name = "eth0"
    /\ find_key(decode_request(request_bytes).payload, "config") # NullObj
    /\ ~IsSuccess(response_bytes)

\* C16: server.stop always answers {success: true}; after it the instance, if
\* there is one, is not running and is otherwise what it was; no instance is
\* created or erased, no alias is removed; and a second server.stop changes
\* nothing more.
C16_StopIdempotent ==
    [][HandledFor("server.stop")
       => /\ response_bytes' = SuccessEnvelope(HandledId, pack_success_payload)
          /\ DOMAIN context'.server_instances = DOMAIN context.server_instances
          /\ \A id \in DOMAIN context.server_instances :
                context'.server_instances[id] =
                   IF id = HandledInstanceId
                   THEN [context.server_instances[id] EXCEPT !.running = FALSE]
                   ELSE context.server_instances[id]
          /\ os_addrs' = os_addrs
          /\ handle_action(request_bytes', context', os_addrs', NoEnv).ctx = context']_vars

\* C17: server.remove for an instance_id the registry does not hold answers
\* {success: true}, makes no stack call, removes no alias and leaves the
\* registry and every instance as they were.
C17_RemoveOfAbsent ==
    [][(/\ HandledFor("server.remove")
        /\ ~has_server_instance(context, HandledInstanceId))
       => /\ response_bytes' = SuccessEnvelope(HandledId, pack_success_payload)
          /\ calls' = <<>>
          /\ os_addrs' = os_addrs
          /\ context' = context]_vars

\* server.remove was answered for an id the registry does not hold, without
\* a call, beside an instance that holds an alias.
C17_Witness ==
    /\ Answered("server.remove")
    /\ LastInstanceId = "b"
    /\ IsSuccess(response_bytes)
    /\ calls = <<>>
    /\ has_server_instance(context, "a")
    /\ get_server_instance(context, "a").ip_configured
    /\ os_addrs # {}


\* The bytes of a client.disconnect request for an instance id.
DisconnectRequest(instance_id) ==
    Envelope("r2", "client.disconnect", Map(<<KV("instance_id", Str(instance_id))>>))

\* C18: when IedConnection_connect fails, client.connect answers the error
\* envelope with the stack's error string, the instance is in the client
\* registry with connected false, and a client.disconnect that follows finds
\* the instance, releases its connection and erases it.
C18_ConnectFailureKeepsInstance ==
    [][(/\ Handled
        /\ request_bytes' # Garbage
        /\ decode_request(request_bytes').action = "client.connect"
        /\ calls' # <<>>
        /\ calls'[Len(calls')] = ConnectCall(FALSE))
       => /\ response_bytes' = ErrorEnvelope(HandledId,
                                   IedClientError_toString("IED_ERROR_CONNECTION_REJECTED"))
          /\ has_client_instance(context', HandledInstanceId)
          /\ ~get_client_instance(context', HandledInstanceId).connected
          /\ \E d \in {handle_action(DisconnectRequest(HandledInstanceId), context',
                                     os_addrs', NoEnv)} :
                /\ IsSuccess(d.response)
                /\ ~has_client_instance(d.ctx, HandledInstanceId)
                /\ d.calls = <<"IedConnection_close", "IedConnection_destroy",
                               "remove_client_instance">>]_vars

\* A connect that the stack rejected was answered for an instance whose
\* earlier connection was released first.
C18_Witness ==
    /\ Answered("client.connect")
    /\ ~IsSuccess(response_bytes)
    /\ calls # <<>>
    /\ calls[Len(calls)] = ConnectCall(FALSE)
    /\ calls[1] = "IedConnection_close"
    /\ has_client_instance(context, LastInstanceId)

\* C19: client.disconnect(id), after any client.connect calls on id, answers
\* success, has closed and destroyed the connection handle of id exactly once
\* where id had one and made no call where it had none, leaves id out of the
\* registry client.list_instances lists, and a second client.disconnect(id)
\* answers success without a call.
C19_DisconnectReleasesOnce ==
    [][HandledFor("client.disconnect")
       => /\ response_bytes' = SuccessEnvelope(HandledId, pack_success_payload)
          /\ calls' = IF ConnectionOf(context, HandledInstanceId) # NULL
                      THEN <<"IedConnection_close", "IedConnection_destroy",
                             "remove_client_instance">>
                      ELSE <<>>
          /\ ~has_client_instance(context', HandledInstanceId)
          /\ \A order \in Orders(DOMAIN context'.client_instances) :
                \E l \in {handle_action(Envelope("r3", "client.list_instances", Map(<<>>)),
                                         context', os_addrs',
                                         [NoEnv EXCEPT !.order = order])} :
                    \A i \in 1..Len(find_key(find_key(l.response, "payload"),
                                              "instances").array) :
                        find_key(find_key(find_key(l.response, "payload"),
                                          "instances").array[i], "instance_id")
                           # Str(HandledInstanceId)
          /\ \E d \in {handle_action(request_bytes', context', os_addrs', NoEnv)} :
                /\ d.response = response_bytes'
                /\ d.calls = <<>>
                /\ d.ctx = context']_vars

\* client.disconnect has closed and destroyed the connection of an instance
\* and erased it, beside another instance that stays in the registry.
C19_Witness ==
    /\ Answered("client.disconnect")
    /\ IsSuccess(response_bytes)
    /\ calls = <<"IedConnection_close", "IedConnection_destroy", "remove_client_instance">>
    /\ ~has_client_instance(context, LastInstanceId)
    /\ DOMAIN context.client_instances # {}


\* What the exceptions of msgpack::unpack say.
UnpackErrors == {"parse error", "insufficient bytes"}

\* C20: request bytes that are no MessagePack value (a zero-length body among
\* them) or whose outer value is no map are answered with the four-key
\* response whose id is the empty string and whose error message starts with
\* "Decode error: ", and no handler has run.
C20_DecodeErrorAnswered ==
    (response_bytes # NoBytes /\ request_bytes.type # "MAP")
    => /\ \E what \in UnpackErrors :
             response_bytes = ErrorEnvelope("", "Decode error: " \o what)
       /\ calls = <<>>


\* The last direct call of the network module reached the kernel with its
\* request: the socket connected and the interface resolved.
Submitted(fn) ==
    /\ net_call.fn = fn
    /\ net_call.nl.connect
    /\ net_call.interface_name \in OsInterfaces

\* C21: add_ip_address with ip 0.0.0.0 or 127.* returns true, has opened no
\* netlink session and has submitted no address add, for every interface and
\* label.
C21_AddSkipsWildcardAndLoopback ==
    (net_call.fn = "add_ip_address" /\ ~should_configure_ip(net_call.ip_address))
    => /\ net_call.ok
       /\ calls = <<>>
       /\ os_addrs = net_call.os

\* C22: add_ip_address of an address the interface already holds returns true
\* and leaves the address table as it was; remove_ip_address of an address
\* the interface does not hold returns true and leaves the table as it was;
\* a request the kernel refuses for any other reason returns false.
C22_AddRemoveIdempotent ==
    /\ (/\ Submitted("add_ip_address")
        /\ ~net_call.nl.refuse
        /\ OsHas(net_call.os, net_call.interface_name, net_call.ip_address))
       => (net_call.ok /\ os_addrs = net_call.os)
    /\ (/\ Submitted("remove_ip_address")
        /\ ~net_call.nl.refuse
        /\ ~OsHas(net_call.os, net_call.interface_name, net_call.ip_address))
       => (net_call.ok /\ os_addrs = net_call.os)
    /\ (/\ Submitted("add_ip_address") \/ Submitted("remove_ip_address")
        /\ net_call.nl.refuse
        /\ calls # <<>>
        /\ calls[Len(calls)] \in {"rtnl_addr_add", "rtnl_addr_delete"})
       => (~net_call.ok /\ os_addrs = net_call.os)

\* An address add was submitted for an address the interface held, beside
\* another address, and returned true.
C22_Witness ==
    /\ Submitted("add_ip_address")
    /\ ~net_call.nl.refuse
    /\ net_call.ip_address = IpA
    /\ OsHas(net_call.os, "eth0", IpA)
    /\ OsHas(net_call.os, "eth0", IpB)
    /\ calls = <<"nl_connect", "if_nametoindex", "rtnl_addr_add">>
    /\ net_call.ok


\* The port a request's config names, or the fallback.
ConfigPort(payload, fallback) ==
    LET config_obj == find_key(payload, "config")
        port_obj == IF config_obj # NullObj /\ config_obj.type = "MAP"
                    THEN find_key(config_obj, "port") ELSE NullObj
    IN IF port_obj # NullObj /\ port_obj.type = "POSITIVE_INTEGER" THEN port_obj.u64
       ELSE fallback

\* The name a request's model carries, or the fallback.
ModelName(payload, fallback) ==
    LET name_obj == find_key(find_key(payload, "model"), "name")
    IN IF name_obj # NullObj /\ name_obj.type = "STR" THEN name_obj.str ELSE fallback

\* The record server.list_instances is to give for an instance.
Listed(inst) ==
    Map(<<KV("instance_id", Str(inst.instance_id)),
          KV("state", Str(IF inst.running THEN "RUNNING" ELSE "STOPPED")),
          KV("port", PInt(inst.port)),
          KV("ied_name", Str(inst.ied_name))>>)

\* The instances array of the response to server.list_instances.
ListedArray(response) == find_key(find_key(response, "payload"), "instances").array

\* C23: server.list_instances answers one record for every instance of the
\* registry and no other, with state "RUNNING" exactly when running is true
\* and "STOPPED" otherwise, the instance's port and its ied_name; the port is
\* the one the last successful server.load_model or server.start set (the
\* config's port; 102 for a load_model without one, the port as it was for a
\* start without one), the ied_name is the name of the model last loaded, and
\* no other request changes either.
C23_ListInstances ==
    [][/\ (/\ Handled
           /\ request_bytes' # Garbage
           /\ decode_request(request_bytes').action = "server.list_instances"
           /\ ensure_payload_map(decode_request(request_bytes').payload,
                                 decode_request(request_bytes').has_payload))
          => /\ IsSuccess(response_bytes')
             /\ response_bytes' =
                   SuccessEnvelope(HandledId,
                       Map(<<KV("instances", Arr(ListedArray(response_bytes')))>>))
             /\ Len(ListedArray(response_bytes')) =
                   Cardinality(DOMAIN context.server_instances)
             /\ \A id \in DOMAIN context.server_instances :
                   \E i \in 1..Len(ListedArray(response_bytes')) :
                       ListedArray(response_bytes')[i] =
                           Listed(get_server_instance(context, id))
       /\ (HandledFor("server.load_model") /\ IsSuccess(response_bytes'))
          => /\ get_server_instance(context', HandledInstanceId).port =
                   ConfigPort(decode_request(request_bytes').payload, 102)
             /\ get_server_instance(context', HandledInstanceId).ied_name =
                   ModelName(decode_request(request_bytes').payload, "IED")
       /\ (HandledFor("server.start") /\ IsSuccess(response_bytes'))
          => /\ get_server_instance(context', HandledInstanceId).port =
                   ConfigPort(decode_request(request_bytes').payload,
                              get_server_instance(context, HandledInstanceId).port)
             /\ get_server_instance(context', HandledInstanceId).ied_name =
                   get_server_instance(context, HandledInstanceId).ied_name
       /\ \A id \in DOMAIN context.server_instances \cap DOMAIN context'.server_instances :
             (\/ get_server_instance(context', id).port # get_server_instance(context, id).port
              \/ get_server_instance(context', id).ied_name
                    # get_server_instance(context, id).ied_name)
             => /\ HandledFor("server.load_model") \/ HandledFor("server.start")
                /\ IsSuccess(response_bytes')
                /\ HandledInstanceId = id]_vars

\* server.list_instances was answered after load_model(a, name IED_A) and
\* start(a, port 10102), with a the one instance and its server listening.
C23_Witness ==
    /\ Answered("server.list_instances")
    /\ lifecycle["a"] = 2
    /\ DOMAIN context.server_instances = {"a"}
    /\ response_bytes =
          SuccessEnvelope("r1",
              Map(<<KV("instances",
                  Arr(<<Map(<<KV("instance_id", Str("a")), KV("state", Str("RUNNING")),
                              KV("port", PInt(10102)), KV("ied_name", Str("IED_A"))>>)>>))>>))


\* C24: once IpcServer::stop has cleared pool_running_, no worker takes a
\* task from the queue: the tasks queued at stop stay unhandled.
C24_NoTaskTakenAfterStop ==
    [][~pool_running_
       => \A w \in Workers : worker_pc'[w] = "popped" => worker_pc[w] = "popped"]_vars


\* x is among the calls of seq.
InSeq(x, seq) == \E i \in 1..Len(seq) : seq[i] = x

\* The calls of seq end with those of tail.
EndsWith(seq, tail) ==
    /\ Len(seq) >= Len(tail)
    /\ SubSeq(seq, Len(seq) - Len(tail) + 1, Len(seq)) = tail

\* The address server.start works with: the config's ip_address if the
\* request has one, the instance's otherwise.
EffectiveIp(payload, inst) ==
    LET config_obj == find_key(payload, "config")
        ip_obj == IF config_obj # NullObj /\ config_obj.type = "MAP"
                  THEN find_key(config_obj, "ip_address") ELSE NullObj
    IN IF ip_obj # NullObj /\ ip_obj.type = "STR" THEN ip_obj.str ELSE inst.ip_address

\* The alias add is due in the server.start step being taken.
AliasDue ==
    /\ should_configure_ip(EffectiveIp(decode_request(request_bytes').payload,
                                       get_server_instance(context, HandledInstanceId)))
    /\ context.global_interface_name # ""

\* C25: server.start on an instance with a model attempts the alias add
\* exactly when the effective ip_address is neither 0.0.0.0 nor 127.* and
\* global_interface_name is not empty; ip_configured turns true only when the
\* add was attempted and returned true (the interface resolves and holds the
\* address afterwards); and whether or not the add failed, the stack is
\* started and the answer is the success envelope whose success field is the
\* stack's running state.
C25_AliasAddOnStart ==
    [][(HandledFor("server.start") /\ IsSuccess(response_bytes'))
       => /\ InSeq("add_ip_address", calls') <=> AliasDue
          /\ (/\ get_server_instance(context', HandledInstanceId).ip_configured
              /\ ~get_server_instance(context, HandledInstanceId).ip_configured)
             => /\ AliasDue
                /\ context.global_interface_name \in OsInterfaces
                /\ OsHas(os_addrs', context.global_interface_name,
                         EffectiveIp(decode_request(request_bytes').payload,
                                     get_server_instance(context, HandledInstanceId)))
          /\ (AliasDue /\ context.global_interface_name \notin OsInterfaces)
             => /\ os_addrs' = os_addrs
                /\ get_server_instance(context', HandledInstanceId).ip_configured
                      = get_server_instance(context, HandledInstanceId).ip_configured
          /\ EndsWith(calls', <<"IedServer_start", "IedServer_isRunning">>)
          /\ response_bytes' =
                SuccessEnvelope(HandledId,
                    Map(<<KV("success",
                             Bool(get_server_instance(context', HandledInstanceId).running)),
                          KV("instance_id", Str(HandledInstanceId))>>))]_vars

\* server.start was answered with success true after an alias add that failed
\* on an interface that does not resolve; ip_configured is false.
C25_Witness ==
    /\ Answered("server.start")
    /\ InSeq("add_ip_address", calls)
    /\ context.global_interface_name \notin OsInterfaces
    /\ has_server_instance(context, LastInstanceId)
    /\ get_server_instance(context, LastInstanceId).running
    /\ ~get_server_instance(context, LastInstanceId).ip_configured
    /\ find_key(find_key(response_bytes, "payload"), "success") = Bool(TRUE)


\* The aliases in the address table that carry the label server.start gives
\* the aliases of an instance.
AliasesOf(os, instance_id) == {a \in os : a.label = AliasLabel(a.ifname, instance_id)}

\* C26: in every state, an instance's ip_configured is true exactly when the
\* address table holds an alias added for that instance, and every such alias
\* is the instance's ip_address on the global interface.
C26_FlagDescribesAlias ==
    \A id \in DOMAIN context.server_instances :
        /\ get_server_instance(context, id).ip_configured
              <=> AliasesOf(os_addrs, id) # {}
        /\ \A a \in AliasesOf(os_addrs, id) :
              /\ a.ifname = context.global_interface_name
              /\ a.local = get_server_instance(context, id).ip_address


\* C27: server.load_model on an instance that has a server stops and destroys
\* that server before it destroys the old config and model and before it
\* creates the new model, leaves server null, and adds and removes no alias.
C27_LoadOverStartedServer ==
    [][(/\ HandledFor("server.load_model")
        /\ IsSuccess(response_bytes')
        /\ has_server_instance(context, HandledInstanceId)
        /\ get_server_instance(context, HandledInstanceId).server # NULL)
       => /\ Len(calls') >= 2
          /\ calls'[1] = "IedServer_stop"
          /\ calls'[2] = "IedServer_destroy"
          /\ \A i \in 3..Len(calls') :
                calls'[i] \notin {"IedServer_stop", "IedServer_destroy",
                                 "IedServer_createWithConfig", "IedServer_start",
                                 "add_ip_address", "remove_ip_address"}
          /\ InSeq("IedModel_create", calls')
          /\ get_server_instance(context, HandledInstanceId).config # NULL
                => InSeq("IedServerConfig_destroy", calls')
          /\ get_server_instance(context, HandledInstanceId).model # NULL
                => InSeq("IedModel_destroy", calls')
          /\ get_server_instance(context', HandledInstanceId).server = NULL
          /\ os_addrs' = os_addrs]_vars

\* server.load_model was answered for an instance whose server listened and
\* whose alias is on the interface: the server went first, the alias stays.
C27_Witness ==
    /\ Answered("server.load_model")
    /\ IsSuccess(response_bytes)
    /\ Len(calls) >= 4
    /\ SubSeq(calls, 1, 4) = <<"IedServer_stop", "IedServer_destroy",
                               "IedServerConfig_destroy", "IedModel_destroy">>
    /\ get_server_instance(context, LastInstanceId).server = NULL
    /\ AliasesOf(os_addrs, LastInstanceId) # {}


\* made is a loop over fcs with call that left at its first success: one call
\* per constraint in the order of fcs, none after a call that set
\* IED_ERROR_OK, and all of fcs if none did.
TriedInOrder(made, call, fcs) ==
    /\ Len(made) \in 1..Len(fcs)
    /\ \A i \in 1..Len(made) :
          made[i] = Tried(call, fcs[i], i = Len(made) /\ made[i] = Tried(call, fcs[i], TRUE))
    /\ Len(made) < Len(fcs) => made[Len(made)] = Tried(call, fcs[Len(made)], TRUE)

\* The last call of made set IED_ERROR_OK.
Succeeded(made, call, fcs) ==
    /\ Len(made) \in 1..Len(fcs)
    /\ made[Len(made)] = Tried(call, fcs[Len(made)], TRUE)

\* The step handles a client request for an instance that has a connection.
HandledWithConnection(action) ==
    /\ HandledFor(action)
    /\ ConnectionOf(context, HandledInstanceId) # NULL

\* C28: client.write with a connection, a reference and a value calls the
\* write operation the value's MessagePack type selects under SP, CF, ST, MX
\* in this order up to the first constraint the stack accepts; it answers
\* success {success: true} if one was accepted and the error envelope with
\* the stack's message if all four failed.
C28_WriteTriesConstraints ==
    [][(/\ HandledWithConnection("client.write")
        /\ find_key(decode_request(request_bytes').payload, "reference") # NullObj
        /\ find_key(decode_request(request_bytes').payload, "value") # NullObj)
       => \E call \in {WriteCall(find_key(decode_request(request_bytes').payload,
                                          "value"))} :
             /\ TriedInOrder(calls', call, <<"SP", "CF", "ST", "MX">>)
             /\ response_bytes' =
                   IF Succeeded(calls', call, <<"SP", "CF", "ST", "MX">>)
                   THEN SuccessEnvelope(HandledId, Map(<<KV("success", Bool(TRUE))>>))
                   ELSE ErrorEnvelope(HandledId,
                                      IedClientError_toString("IED_ERROR_ACCESS_DENIED"))]_vars

\* The record of a read that failed: no value, the stack's error string.
FailedRecord(record) ==
    /\ find_key(record, "value") = Nil
    /\ find_key(record, "error") =
          Str(IedClientError_toString("IED_ERROR_OBJECT_DOES_NOT_EXIST"))

\* The record of a read that succeeded: no error.
ReadOkRecord(record) == find_key(record, "error") = Nil

\* The references array of the client.read_batch request being handled.
BatchReferences == find_key(decode_request(request_bytes').payload, "references").array

\* The values map of the response to it.
BatchValues == find_key(find_key(response_bytes', "payload"), "values").map

\* The calls made for the n-th of the references, each of which took k calls.
CallsOfReference(n, k) == SubSeq(calls', (n - 1) * k + 1, n * k)

\* C29: client.read with a connection and a reference, and client.read_batch
\* with a connection and a references array, read each reference under ST,
\* MX, SP, CF in this order up to the first success; the envelope's error is
\* nil, a read that failed is reported in its record alone (value nil, error
\* the stack's error string), and read_batch gives one record per reference
\* in the order of the request.
C29_ReadTriesConstraints ==
    [][/\ (/\ HandledWithConnection("client.read")
           /\ find_key(decode_request(request_bytes').payload, "reference") # NullObj)
          => /\ TriedInOrder(calls', "IedConnection_readObject", <<"ST", "MX", "SP", "CF">>)
             /\ IsSuccess(response_bytes')
             /\ \E record \in {find_key(find_key(response_bytes', "payload"), "value")} :
                   IF Succeeded(calls', "IedConnection_readObject",
                                <<"ST", "MX", "SP", "CF">>)
                   THEN ReadOkRecord(record) ELSE FailedRecord(record)
       /\ (/\ HandledWithConnection("client.read_batch")
           /\ find_key(decode_request(request_bytes').payload, "references") # NullObj
           /\ find_key(decode_request(request_bytes').payload, "references").type = "ARRAY")
          => /\ IsSuccess(response_bytes')
             /\ Len(BatchValues) = Len(BatchReferences)
             /\ \E k \in 0..4 :
                   /\ Len(calls') = k * Len(BatchReferences)
                   /\ \A n \in 1..Len(BatchReferences) :
                         /\ BatchValues[n].key = BatchReferences[n]
                         /\ TriedInOrder(CallsOfReference(n, k),
                                         "IedConnection_readObject",
                                         <<"ST", "MX", "SP", "CF">>)
                         /\ IF Succeeded(CallsOfReference(n, k),
                                         "IedConnection_readObject",
                                         <<"ST", "MX", "SP", "CF">>)
                            THEN ReadOkRecord(BatchValues[n].val)
                            ELSE FailedRecord(BatchValues[n].val)]_vars

\* client.read_batch was answered for two references, the first read at its
\* second constraint and so was the second: two records in the order asked.
C29_Witness ==
    /\ Answered("client.read_batch")
    /\ IsSuccess(response_bytes)
    /\ calls = <<Tried("IedConnection_readObject", "ST", FALSE),
                 Tried("IedConnection_readObject", "MX", TRUE),
                 Tried("IedConnection_readObject", "ST", FALSE),
                 Tried("IedConnection_readObject", "MX", TRUE)>>
    /\ Len(find_key(find_key(response_bytes, "payload"), "values").map) = 2
    /\ find_key(find_key(response_bytes, "payload"), "values").map[1].key
          = Str("LD/LN.DO.db")

\* C30: client.browse for an instance that is not connected (absent from the
\* client registry, or there with connected false) answers the error
\* "Client not connected" and makes no call to the stack.
C30_BrowseNeedsConnected ==
    [][(/\ HandledFor("client.browse")
        /\ \/ ~has_client_instance(context, HandledInstanceId)
           \/ ~get_client_instance(context, HandledInstanceId).connected)
       => /\ response_bytes' = ErrorEnvelope(HandledId, "Client not connected")
          /\ calls' = <<>>]_vars


\* ------------------------------------------- the stack's connection thread

\* How many client connections the stack holds open at once.
MaxConnections == 2

\* The clients list of an instance, empty for an instance the registry lacks.
ClientsOf(ctx, instance_id) ==
    IF has_server_instance(ctx, instance_id)
    THEN get_server_instance(ctx, instance_id).clients
    ELSE <<>>

\* on_connection_event on a thread of the stack, for the server of instance
\* "a": connection conn of a peer is opened on the listening server, or an open
\* one is closed. The callback takes no lock: it runs whoever holds the
\* context's mutex. It appends {peer, now} on a connect, and on a disconnect
\* erases every entry whose id is the peer's address.
on_connection_event ==
    \E conn \in 1..MaxConnections, peer \in Peers, connected \in BOOLEAN :
        /\ has_server_instance(context, "a")
        /\ get_server_instance(context, "a").server # NULL
        /\ IF connected
           THEN /\ get_server_instance(context, "a").running
                /\ \A c \in connections : c.conn # conn
           ELSE [conn |-> conn, peer |-> peer] \in connections
        /\ connections' =
              IF connected
              THEN connections \cup {[conn |-> conn, peer |-> peer]}
              ELSE connections \ {[conn |-> conn, peer |-> peer]}
        /\ context' = SetServer(context, "a",
              [get_server_instance(context, "a") EXCEPT !.clients =
                  IF connected
                  THEN Append(@, [id |-> peer, connected_at |-> now_iso])
                  ELSE SelectSeq(@, LAMBDA info : info.id # peer)])
        /\ UNCHANGED <<os_addrs, request_bytes, response_bytes, calls, lifecycle, history>>
        /\ UNCHANGED poolVars
        /\ UNCHANGED pipeVars
        /\ UNCHANGED netVars
        /\ UNCHANGED stopVars
        /\ UNCHANGED ipcVars /\ UNCHANGED fdVars /\ UNCHANGED cvVars

\* server.load_model and server.start of instance "a" while no client is
\* connected to its server.
LoadUnconnected ==
    /\ connections = {}
    /\ LoadLeafModel

StartUnconnected ==
    /\ connections = {}
    /\ StartLeafServer

\* The accept loop queues a server.get_clients of instance "a" for each of
\* the two pool workers.
EnqueueGetClients ==
    /\ Idle
    /\ has_server_instance(context, "a")
    /\ get_server_instance(context, "a").server # NULL
    /\ worker_pc' = [w \in Workers |-> "queued"]
    /\ worker_task' =
          [w \in Workers |->
              Envelope(IF w = "w1" THEN "r1" ELSE "r2", "server.get_clients",
                       Map(<<KV("instance_id", Str("a"))>>))]
    /\ UNCHANGED <<context, os_addrs, request_bytes, response_bytes, calls, lifecycle, history,
                   worker_response, mutex, first_locker>>
    /\ UNCHANGED pipeVars
    /\ UNCHANGED netVars
    /\ UNCHANGED stopVars /\ UNCHANGED stackVars /\ UNCHANGED cvVars /\ UNCHANGED ipcVars /\ UNCHANGED fdVars

NextCallback ==
    \/ LoadUnconnected
    \/ StartUnconnected
    \/ send_response
    \/ EnqueueGetClients
    \/ \E w \in Workers : WorkerLock(w)
    \/ \E w \in Workers : WorkerRun(w)
    \/ \E w \in Workers : WorkerSend(w)
    \/ on_connection_event

\* The server of one instance with clients that come and go on the stack's
\* thread while two pool workers handle server.get_clients.
SpecCallback == Init /\ [][NextCallback]_vars

\* C31: every read or write of an instance's clients happens under the registry
\* mutex: while a worker holds the mutex inside a handler, the clients list of
\* the instance changes only by that worker's own step.
C31_ClientsUnderMutex ==
    [][\A w \in Workers :
          (mutex = w /\ ClientsOf(context', "a") # ClientsOf(context, "a"))
              => worker_pc'[w] # worker_pc[w]]_vars

\* C38: the clients list holds exactly one entry for each open connection and
\* none for a closed one, two open connections of one peer address included.
C38_ClientsMatchConnections ==
    \A peer \in Peers :
        Cardinality({i \in 1..Len(ClientsOf(context, "a")) :
                        ClientsOf(context, "a")[i].id = peer})
            = Cardinality({c \in connections : c.peer = peer})


\* C39: after server.start with config {port: P, ip_address: A} returns, the
\* instance's port is P and its ip_address is A, the wildcard 0.0.0.0 given to
\* an instance that had another address included.
C39_StartSetsPortAndAddress ==
    [][(HandledFor("server.start") /\ IsSuccess(response_bytes'))
       => /\ get_server_instance(context', HandledInstanceId).port
                = ConfigPort(decode_request(request_bytes').payload,
                             get_server_instance(context, HandledInstanceId).port)
          /\ get_server_instance(context', HandledInstanceId).ip_address
                = EffectiveIp(decode_request(request_bytes').payload,
                              get_server_instance(context, HandledInstanceId))]_vars


\* server.set_data_value refuses the request of the step being taken: the
\* instance is absent, has no server or no model, or the payload lacks
\* reference or value.
SetDataValueRefused ==
    \/ ~has_server_instance(context, HandledInstanceId)
    \/ get_server_instance(context, HandledInstanceId).server = NULL
    \/ get_server_instance(context, HandledInstanceId).model = NULL
    \/ find_key(decode_request(request_bytes').payload, "reference") = NullObj
    \/ find_key(decode_request(request_bytes').payload, "value") = NullObj

\* The kind of node the reference of the request being handled resolves to.
HandledNodeKind ==
    IedModel_getModelNodeByObjectReference(
        get_server_instance(context, HandledInstanceId).model_nodes,
        as_string(find_key(decode_request(request_bytes').payload, "reference"), "")).kind

\* C40: server.set_data_value answers the error "Invalid request: missing
\* server, model, reference, or value" exactly when the instance is absent, has
\* no server, has no model, or the payload lacks reference or value, and then
\* changes nothing; in every other case it answers {success: true}, and a
\* reference that resolves to no node or to a node that is no data attribute
\* changes no attribute value.
C40_SetDataValueGuard ==
    [][HandledFor("server.set_data_value")
       => IF SetDataValueRefused
          THEN /\ response_bytes' =
                     ErrorEnvelope(HandledId,
                         "Invalid request: missing server, model, reference, or value")
               /\ context' = context
               /\ os_addrs' = os_addrs
               /\ calls' = <<>>
          ELSE /\ response_bytes' = SuccessEnvelope(HandledId, pack_success_payload)
               /\ HandledNodeKind # "DataAttributeModelType" => context' = context]_vars

\* server.set_data_value without a value was refused for an instance whose
\* server and model exist.
C40_Witness ==
    /\ Answered("server.set_data_value")
    /\ has_server_instance(context, LastInstanceId)
    /\ get_server_instance(context, LastInstanceId).server # NULL
    /\ get_server_instance(context, LastInstanceId).model # NULL
    /\ find_key(decode_request(request_bytes).payload, "value") = NullObj
    /\ response_bytes = ErrorEnvelope("r1",
           "Invalid request: missing server, model, reference, or value")


\* ------------------------------------------------------ client sockets

\* The frames the peers send over a run, on whichever connections.
MaxFrames == 2

\* What a peer lets arrive for its n-th frame before the acceptor reads: the
\* bytes of the length prefix, the length they announce, the bytes of body
\* that arrive before end-of-stream, and the request they carry.
CompleteFrame(c, n) ==
    [prefix_len |-> 4, length |-> 2, body_len |-> 2, request_data |-> <<c, n>>]
ShortPrefix(c, n) ==
    [prefix_len |-> 2, length |-> 0, body_len |-> 0, request_data |-> <<c, n>>]
ShortBody(c, n) ==
    [prefix_len |-> 4, length |-> 2, body_len |-> 1, request_data |-> <<c, n>>]

\* read_request that hands on the bytes of a body cut short by end-of-stream.
read_request_padding(item) == item.prefix_len = 4

\* read_request on what has arrived: the first read must return the 4 bytes
\* of the prefix, and the reads of the body must add up to the length before
\* a read returns 0.
read_request(item) ==
    /\ item.prefix_len = 4
    /\ item.body_len = item.length

\* async_handler_: the response the daemon's handler returns for a request.
async_handler_(request_data) == [response_to |-> request_data]

\* The connection a descriptor number is open on.
ConnOf(fd) == fd_table[fd]

\* The descriptor number open on a connection, if any.
FdsOf(c) == {fd \in Fds : fd_table[fd] = c}

\* ::close(fd): the number is free afterwards; the call is counted for the
\* connection it closed, or under NoConn when the number was not open.
Close(table, fd) == [table EXCEPT ![fd] = NoConn]
CountClose(counts, table, fd) == [counts EXCEPT ![table[fd]] = @ + 1]

\* A peer connects to the listening socket.
PeerConnect(c) ==
    /\ peers[c].state = "unopened"
    /\ \A d \in ConnIds : d < c => peers[d].state # "unopened"
    /\ peers' = [peers EXCEPT ![c].state = "pending"]
    /\ UNCHANGED <<fd_table, epoll_set, client_fds_, received, close_calls, accept_pc, stop_pc>>
    /\ UNCHANGED <<context, os_addrs, request_bytes, response_bytes, calls, lifecycle, history>>
    /\ UNCHANGED poolVars
    /\ UNCHANGED pipeVars
    /\ UNCHANGED netVars
    /\ UNCHANGED stopVars /\ UNCHANGED stackVars /\ UNCHANGED cvVars /\ UNCHANGED ipcVars

\* The frames sent so far on the connections 1..c.
RECURSIVE SentUpTo(_)
SentUpTo(c) == IF c = 0 THEN 0 ELSE peers[c].sent + SentUpTo(c - 1)

\* The peer of an accepted connection sends its next frame, whole or cut short.
PeerSend(c) ==
    \E item \in {CompleteFrame(c, peers[c].sent + 1), ShortPrefix(c, peers[c].sent + 1),
                 ShortBody(c, peers[c].sent + 1)} :
        /\ peers[c].state = "open"
        /\ SentUpTo(MaxConns) < MaxFrames
        /\ \A i \in 1..Len(peers[c].stream) : read_request(peers[c].stream[i])
        /\ peers' = [peers EXCEPT ![c].stream = Append(@, item), ![c].sent = @ + 1]
        /\ UNCHANGED <<fd_table, epoll_set, client_fds_, received, close_calls, accept_pc, stop_pc>>
        /\ UNCHANGED <<context, os_addrs, request_bytes, response_bytes, calls, lifecycle, history>>
        /\ UNCHANGED poolVars
        /\ UNCHANGED pipeVars
        /\ UNCHANGED netVars
        /\ UNCHANGED stopVars /\ UNCHANGED stackVars /\ UNCHANGED cvVars /\ UNCHANGED ipcVars

\* The peer of an accepted connection closes its end.
PeerHangup(c) ==
    /\ peers[c].state = "open"
    /\ peers' = [peers EXCEPT ![c].state = "hungup"]
    /\ UNCHANGED <<fd_table, epoll_set, client_fds_, received, close_calls, accept_pc, stop_pc>>
    /\ UNCHANGED <<context, os_addrs, request_bytes, response_bytes, calls, lifecycle, history>>
    /\ UNCHANGED poolVars
    /\ UNCHANGED pipeVars
    /\ UNCHANGED netVars
    /\ UNCHANGED stopVars /\ UNCHANGED stackVars /\ UNCHANGED cvVars /\ UNCHANGED ipcVars

\* accept_loop_threaded on an event of server_fd_: accept hands out the lowest
\* free descriptor number, which is added to epoll and to client_fds_.
AcceptConnection(c) ==
    \E fd \in Fds :
        /\ accept_pc.at = "poll"
        /\ running_
        /\ peers[c].state = "pending"
        /\ fd_table[fd] = NoConn
        /\ \A lower \in Fds : lower < fd => fd_table[lower] # NoConn
        /\ fd_table' = [fd_table EXCEPT ![fd] = c]
        /\ epoll_set' = epoll_set \cup {fd}
        /\ client_fds_' = client_fds_ \cup {fd}
        /\ peers' = [peers EXCEPT ![c].state = "open"]
        /\ UNCHANGED <<received, close_calls, accept_pc, stop_pc>>
        /\ UNCHANGED <<context, os_addrs, request_bytes, response_bytes, calls, lifecycle, history>>
        /\ UNCHANGED poolVars
        /\ UNCHANGED pipeVars
        /\ UNCHANGED netVars
        /\ UNCHANGED stopVars /\ UNCHANGED stackVars /\ UNCHANGED cvVars /\ UNCHANGED ipcVars

\* accept_loop_threaded on EPOLLRDHUP, EPOLLERR or EPOLLHUP of a client fd,
\* which it tests before EPOLLIN: EPOLL_CTL_DEL and ::close. The erase from
\* client_fds_ follows under client_fds_mutex_.
AcceptorHangup(fd) ==
    /\ accept_pc.at = "poll"
    /\ running_
    /\ fd \in epoll_set
    /\ ConnOf(fd) # NoConn
    /\ peers[ConnOf(fd)].state = "hungup"
    /\ epoll_set' = epoll_set \ {fd}
    /\ fd_table' = Close(fd_table, fd)
    /\ close_calls' = CountClose(close_calls, fd_table, fd)
    /\ accept_pc' = [at |-> "erasing", fd |-> fd]
    /\ UNCHANGED <<client_fds_, peers, received, stop_pc>>
    /\ UNCHANGED <<context, os_addrs, request_bytes, response_bytes, calls, lifecycle, history>>
    /\ UNCHANGED poolVars
    /\ UNCHANGED pipeVars
    /\ UNCHANGED netVars
    /\ UNCHANGED stopVars /\ UNCHANGED stackVars /\ UNCHANGED cvVars /\ UNCHANGED ipcVars

\* accept_loop_threaded on EPOLLIN of a client fd: read_request takes what
\* has arrived; a frame is pushed to task_queue_ with its descriptor number,
\* and on a failed read the fd is deleted from epoll and closed.
AcceptorRead(fd) ==
    /\ accept_pc.at = "poll"
    /\ running_
    /\ fd \in epoll_set
    /\ ConnOf(fd) # NoConn
    /\ peers[ConnOf(fd)].state = "open"
    /\ peers[ConnOf(fd)].stream # <<>>
    /\ IF read_request(Head(peers[ConnOf(fd)].stream))
       THEN /\ task_queue' =
                  Append(task_queue,
                         [client_fd |-> fd,
                          request_data |-> Head(peers[ConnOf(fd)].stream).request_data])
            /\ peers' = [peers EXCEPT ![ConnOf(fd)].stream = Tail(@)]
            /\ UNCHANGED <<fd_table, epoll_set, close_calls, accept_pc>>
       ELSE /\ epoll_set' = epoll_set \ {fd}
            /\ fd_table' = Close(fd_table, fd)
            /\ close_calls' = CountClose(close_calls, fd_table, fd)
            /\ accept_pc' = [at |-> "erasing", fd |-> fd]
            /\ UNCHANGED <<task_queue, peers>>
    /\ UNCHANGED <<client_fds_, received, stop_pc, accepted, wire>>
    /\ UNCHANGED <<context, os_addrs, request_bytes, response_bytes, calls, lifecycle, history>>
    /\ UNCHANGED poolVars
    /\ UNCHANGED netVars
    /\ UNCHANGED stopVars /\ UNCHANGED stackVars /\ UNCHANGED cvVars /\ UNCHANGED ipcVars

\* accept_loop_threaded after the ::close: client_fds_.erase(fd) under
\* client_fds_mutex_, and on to the next event.
AcceptorErase ==
    /\ accept_pc.at = "erasing"
    /\ client_fds_' = client_fds_ \ {accept_pc.fd}
    /\ accept_pc' = [at |-> "poll"]
    /\ UNCHANGED <<fd_table, epoll_set, peers, received, close_calls, stop_pc>>
    /\ UNCHANGED <<context, os_addrs, request_bytes, response_bytes, calls, lifecycle, history>>
    /\ UNCHANGED poolVars
    /\ UNCHANGED pipeVars
    /\ UNCHANGED netVars
    /\ UNCHANGED stopVars /\ UNCHANGED stackVars /\ UNCHANGED cvVars /\ UNCHANGED ipcVars

\* accept_loop_threaded at `while (running_)` once stop has cleared it.
AcceptorExit ==
    /\ accept_pc.at = "poll"
    /\ ~running_
    /\ accept_pc' = [at |-> "exited"]
    /\ UNCHANGED <<fd_table, epoll_set, client_fds_, peers, received, close_calls, stop_pc>>
    /\ UNCHANGED <<context, os_addrs, request_bytes, response_bytes, calls, lifecycle, history>>
    /\ UNCHANGED poolVars
    /\ UNCHANGED pipeVars
    /\ UNCHANGED netVars
    /\ UNCHANGED stopVars /\ UNCHANGED stackVars /\ UNCHANGED cvVars /\ UNCHANGED ipcVars

\* worker_thread_func that reads the front task and leaves it in the queue.
TaskPop_keeping(w) ==
    /\ worker_pc[w] = "waiting"
    /\ task_queue # <<>>
    /\ worker_task' = [worker_task EXCEPT ![w] = Head(task_queue)]
    /\ worker_pc' = [worker_pc EXCEPT ![w] = "popped"]
    /\ UNCHANGED <<context, os_addrs, request_bytes, response_bytes, calls, lifecycle,
                   history, worker_response, mutex, first_locker>>
    /\ UNCHANGED pipeVars
    /\ UNCHANGED netVars
    /\ UNCHANGED stopVars /\ UNCHANGED stackVars /\ UNCHANGED cvVars /\ UNCHANGED ipcVars /\ UNCHANGED fdVars

\* worker_thread_func under queue_mutex_: the worker moves the front task,
\* its descriptor number and its request, out of the queue.
TaskPop(w) ==
    /\ worker_pc[w] = "waiting"
    /\ task_queue # <<>>
    /\ worker_task' = [worker_task EXCEPT ![w] = Head(task_queue)]
    /\ task_queue' = Tail(task_queue)
    /\ worker_pc' = [worker_pc EXCEPT ![w] = "popped"]
    /\ UNCHANGED <<context, os_addrs, request_bytes, response_bytes, calls, lifecycle,
                   history, worker_response, mutex, first_locker, accepted, wire>>
    /\ UNCHANGED netVars
    /\ UNCHANGED stopVars /\ UNCHANGED stackVars /\ UNCHANGED cvVars /\ UNCHANGED ipcVars /\ UNCHANGED fdVars

\* handle_client_async: the handler's return.
TaskHandle(w) ==
    /\ worker_pc[w] = "popped"
    /\ worker_response' = [worker_response EXCEPT ![w] = async_handler_(worker_task[w].request_data)]
    /\ worker_pc' = [worker_pc EXCEPT ![w] = "handled"]
    /\ UNCHANGED <<context, os_addrs, request_bytes, response_bytes, calls, lifecycle,
                   history, worker_task, mutex, first_locker>>
    /\ UNCHANGED pipeVars
    /\ UNCHANGED netVars
    /\ UNCHANGED stopVars /\ UNCHANGED stackVars /\ UNCHANGED cvVars /\ UNCHANGED ipcVars /\ UNCHANGED fdVars

\* ::write(client_fd, ...): the bytes go to the connection the number is open
\* on when the call is made; on a number that is not open it fails and
\* nothing is written.
Write(fd, part, response) ==
    IF ConnOf(fd) = NoConn
    THEN received
    ELSE [received EXCEPT ![ConnOf(fd)] = Append(@, [part |-> part, response |-> response])]

\* send_response, its first write: the 4-byte length prefix.
SendLength(w) ==
    /\ worker_pc[w] = "handled"
    /\ received' = Write(worker_task[w].client_fd, "length", worker_response[w])
    /\ worker_pc' = [worker_pc EXCEPT ![w] = "length_sent"]
    /\ UNCHANGED <<fd_table, epoll_set, client_fds_, peers, close_calls, accept_pc, stop_pc>>
    /\ UNCHANGED <<context, os_addrs, request_bytes, response_bytes, calls, lifecycle,
                   history, worker_task, worker_response, mutex, first_locker>>
    /\ UNCHANGED pipeVars
    /\ UNCHANGED netVars
    /\ UNCHANGED stopVars /\ UNCHANGED stackVars /\ UNCHANGED cvVars /\ UNCHANGED ipcVars

\* send_response, its second write: the body; the worker then waits for the
\* next task.
SendBody(w) ==
    /\ worker_pc[w] = "length_sent"
    /\ received' = Write(worker_task[w].client_fd, "body", worker_response[w])
    /\ worker_pc' = [worker_pc EXCEPT ![w] = "waiting"]
    /\ worker_task' = [worker_task EXCEPT ![w] = NoBytes]
    /\ worker_response' = [worker_response EXCEPT ![w] = NoBytes]
    /\ UNCHANGED <<fd_table, epoll_set, client_fds_, peers, close_calls, accept_pc, stop_pc>>
    /\ UNCHANGED <<context, os_addrs, request_bytes, response_bytes, calls, lifecycle,
                   history, mutex, first_locker>>
    /\ UNCHANGED pipeVars
    /\ UNCHANGED netVars
    /\ UNCHANGED stopVars /\ UNCHANGED stackVars /\ UNCHANGED cvVars /\ UNCHANGED ipcVars

\* worker_thread_func once pool_running_ is cleared: a worker that is not
\* inside a task leaves its loop.
TaskWorkerExit(w) ==
    /\ worker_pc[w] = "waiting"
    /\ ~pool_running_
    /\ worker_pc' = [worker_pc EXCEPT ![w] = "exited"]
    /\ UNCHANGED <<context, os_addrs, request_bytes, response_bytes, calls, lifecycle,
                   history, worker_task, worker_response, mutex, first_locker>>
    /\ UNCHANGED pipeVars
    /\ UNCHANGED netVars
    /\ UNCHANGED stopVars /\ UNCHANGED stackVars /\ UNCHANGED cvVars /\ UNCHANGED ipcVars /\ UNCHANGED fdVars

\* IpcServer::stop on a running server: running_ and pool_running_ are
\* cleared and the workers notified.
StopEnter ==
    /\ stop_pc = "running"
    /\ running_' = FALSE
    /\ pool_running_' = FALSE
    /\ stop_pc' = "joining_workers"
    /\ UNCHANGED <<fd_table, epoll_set, client_fds_, peers, received, close_calls, accept_pc>>
    /\ UNCHANGED <<context, os_addrs, request_bytes, response_bytes, calls, lifecycle, history>>
    /\ UNCHANGED poolVars
    /\ UNCHANGED pipeVars
    /\ UNCHANGED netVars
    /\ UNCHANGED stackVars /\ UNCHANGED cvVars

\* IpcServer::stop: every worker is joined, and server_fd_ is shut down and
\* closed.
StopJoinWorkers ==
    /\ stop_pc = "joining_workers"
    /\ \A w \in Workers : worker_pc[w] = "exited"
    /\ stop_pc' = "closing_clients"
    /\ UNCHANGED <<fd_table, epoll_set, client_fds_, peers, received, close_calls, accept_pc>>
    /\ UNCHANGED <<context, os_addrs, request_bytes, response_bytes, calls, lifecycle, history>>
    /\ UNCHANGED poolVars
    /\ UNCHANGED pipeVars
    /\ UNCHANGED netVars
    /\ UNCHANGED stopVars /\ UNCHANGED stackVars /\ UNCHANGED cvVars /\ UNCHANGED ipcVars

\* The table and the counts after ::close of each descriptor number of a set.
RECURSIVE CloseAll(_, _)
CloseAll(state, fds) ==
    IF fds = {} THEN state
    ELSE LET fd == CHOOSE x \in fds : \A y \in fds : x <= y
         IN CloseAll([table |-> Close(state.table, fd),
                      counts |-> CountClose(state.counts, state.table, fd)],
                     fds \ {fd})

\* IpcServer::stop under client_fds_mutex_: ::close of every fd in
\* client_fds_, which is then cleared; epoll_fd_ is closed after it.
StopCloseClients ==
    /\ stop_pc = "closing_clients"
    /\ fd_table' = CloseAll([table |-> fd_table, counts |-> close_calls], client_fds_).table
    /\ close_calls' = CloseAll([table |-> fd_table, counts |-> close_calls], client_fds_).counts
    /\ client_fds_' = {}
    /\ epoll_set' = {}
    /\ stop_pc' = "joining_acceptor"
    /\ UNCHANGED <<peers, received, accept_pc>>
    /\ UNCHANGED <<context, os_addrs, request_bytes, response_bytes, calls, lifecycle, history>>
    /\ UNCHANGED poolVars
    /\ UNCHANGED pipeVars
    /\ UNCHANGED netVars
    /\ UNCHANGED stopVars /\ UNCHANGED stackVars /\ UNCHANGED cvVars /\ UNCHANGED ipcVars

\* IpcServer::stop: the accept thread is joined and stop returns.
StopJoinAcceptor ==
    /\ stop_pc = "joining_acceptor"
    /\ accept_pc.at = "exited"
    /\ stop_pc' = "returned"
    /\ UNCHANGED <<fd_table, epoll_set, client_fds_, peers, received, close_calls, accept_pc>>
    /\ UNCHANGED <<context, os_addrs, request_bytes, response_bytes, calls, lifecycle, history>>
    /\ UNCHANGED poolVars
    /\ UNCHANGED pipeVars
    /\ UNCHANGED netVars
    /\ UNCHANGED stopVars /\ UNCHANGED stackVars /\ UNCHANGED cvVars /\ UNCHANGED ipcVars

NextSockets ==
    \/ \E c \in ConnIds : PeerConnect(c)
    \/ \E c \in ConnIds : PeerSend(c)
    \/ \E c \in ConnIds : PeerHangup(c)
    \/ \E c \in ConnIds : AcceptConnection(c)
    \/ \E fd \in Fds : AcceptorHangup(fd)
    \/ \E fd \in Fds : AcceptorRead(fd)
    \/ AcceptorErase
    \/ \E w \in Workers : TaskPop(w)
    \/ \E w \in Workers : TaskHandle(w)
    \/ \E w \in Workers : SendLength(w)
    \/ \E w \in Workers : SendBody(w)

\* Peers that connect, send frames and hang up while the server runs; the
\* acceptor and the pool's workers on the descriptors of their connections.
SpecSockets == Init /\ [][NextSockets]_vars

NextSocketsStop ==
    \/ \E c \in ConnIds : PeerConnect(c)
    \/ \E c \in ConnIds : PeerHangup(c)
    \/ \E c \in ConnIds : AcceptConnection(c)
    \/ \E fd \in Fds : AcceptorHangup(fd)
    \/ AcceptorErase
    \/ AcceptorExit
    \/ \E w \in Workers : TaskWorkerExit(w)
    \/ StopEnter
    \/ StopJoinWorkers
    \/ StopCloseClients
    \/ StopJoinAcceptor

\* Peers that connect and hang up; the acceptor on their descriptors while
\* IpcServer::stop runs on another thread.
SpecSocketsStop == Init /\ [][NextSocketsStop]_vars


\* The requests of the frames the acceptor has read completely: sent, and no
\* longer among what its connection holds unread.
ReadFrames ==
    {r \in ConnIds \X (1..MaxFrames) :
        /\ r[2] <= peers[r[1]].sent
        /\ \A i \in 1..Len(peers[r[1]].stream) : peers[r[1]].stream[i].request_data # r}

\* How many tasks of the queue, and how many workers, hold a request.
InQueue(r) == Cardinality({i \in 1..Len(task_queue) : task_queue[i].request_data = r})
InWorkers(r, pcs) ==
    Cardinality({w \in Workers : worker_pc[w] \in pcs /\ worker_task[w].request_data = r})

\* The places of a connection's writes that hold a part of a request's response.
Parts(c, r, part) ==
    {i \in 1..Len(received[c]) :
        received[c][i] = [part |-> part, response |-> async_handler_(r)]}

\* C33: while the server runs and a connection stays open, every request
\* frame the acceptor has read from it is held by exactly one of the task
\* queue, one worker, or one finished response on that connection; the
\* response is one length prefix and then one body, both on that connection; a
\* connection may carry more than one request.
C33_EachFrameHandledOnce ==
    \A r \in ReadFrames :
        (running_ /\ FdsOf(r[1]) # {})
        => /\ InQueue(r) + InWorkers(r, {"popped", "handled", "length_sent"})
                + Cardinality(Parts(r[1], r, "body")) = 1
           /\ Cardinality(Parts(r[1], r, "length"))
                = Cardinality(Parts(r[1], r, "body")) + InWorkers(r, {"length_sent"})
           /\ \A i \in Parts(r[1], r, "length"), j \in Parts(r[1], r, "body") : i < j
           /\ \A c \in ConnIds \ {r[1]} :
                 Parts(c, r, "length") \cup Parts(c, r, "body") = {}

\* Two requests were read from one connection that is still open, and the
\* responses to both are complete on it while the workers wait again.
C33_Witness ==
    /\ FdsOf(1) # {}
    /\ {<<1, 1>>, <<1, 2>>} \subseteq ReadFrames
    /\ Cardinality(Parts(1, <<1, 1>>, "body")) = 1
    /\ Cardinality(Parts(1, <<1, 2>>, "body")) = 1
    /\ \A w \in Workers : worker_pc[w] = "waiting"

\* What has arrived on a descriptor's connection cannot be served: the peer
\* has hung up, or the frame at the front lacks prefix bytes or body bytes.
Unservable(fd) ==
    /\ ConnOf(fd) # NoConn
    /\ \/ peers[ConnOf(fd)].state = "hungup"
       \/ /\ peers[ConnOf(fd)].stream # <<>>
          /\ \/ Head(peers[ConnOf(fd)].stream).prefix_len < 4
             \/ Head(peers[ConnOf(fd)].stream).body_len
                   < Head(peers[ConnOf(fd)].stream).length

\* Nothing is queued, held by a worker or written for a frame that was not read.
UnreadUntouched ==
    \A r \in (ConnIds \X (1..MaxFrames)) \ ReadFrames :
        /\ InQueue(r) + InWorkers(r, {"popped", "handled", "length_sent"}) = 0
        /\ \A c \in ConnIds : Parts(c, r, "length") \cup Parts(c, r, "body") = {}

C35_ResponseOnOwnConnection ==
    \A c \in ConnIds : \A i \in 1..Len(received[c]) :
        received[c][i].response.response_to[1] = c

\* The writes on a connection of the responses to its own requests.
OwnWrites(c) == SelectSeq(received[c], LAMBDA wr : wr.response.response_to[1] = c)

\* C36: when two workers answer two requests of one connection at the same
\* time, each length prefix on it is immediately followed by its body.
C36_PrefixThenBody ==
    \A c \in ConnIds : \A i \in 1..Len(OwnWrites(c)) :
        (OwnWrites(c)[i].part = "length" /\ i < Len(OwnWrites(c)))
        => OwnWrites(c)[i + 1] = [part |-> "body", response |-> OwnWrites(c)[i].response]

\* C37: every accepted client fd is closed exactly once, by the acceptor or by
\* IpcServer::stop and never by both, and none is open once stop has returned.
C37_ClosedExactlyOnce ==
    /\ close_calls[NoConn] = 0
    /\ \A c \in ConnIds : close_calls[c] <= 1
    /\ stop_pc = "returned"
       => \A c \in ConnIds :
             peers[c].state \in {"open", "hungup"} => close_calls[c] = 1 /\ FdsOf(c) = {}


\* ------------------------------------------------- stopping the waiters

\* The tasks the acceptor queues over a run.
MaxQueued == 2

\* The workers blocked in queue_cv_.wait.
Blocked == {w \in Workers : worker_pc[w] = "blocked"}

\* worker_thread_func at `while (pool_running_)`: on to the lock, or out.
CvWorkerTop(w) ==
    /\ worker_pc[w] = "waiting"
    /\ worker_pc' = [worker_pc EXCEPT ![w] = IF pool_running_ THEN "locking" ELSE "exited"]
    /\ UNCHANGED <<context, os_addrs, request_bytes, response_bytes, calls, lifecycle,
                   history, worker_task, worker_response, mutex, first_locker>>
    /\ UNCHANGED pipeVars
    /\ UNCHANGED netVars
    /\ UNCHANGED stopVars /\ UNCHANGED stackVars /\ UNCHANGED cvVars /\ UNCHANGED ipcVars /\ UNCHANGED fdVars

\* The worker takes queue_mutex_: on entering the block, or when it returns
\* from the wait it was woken from.
CvWorkerLock(w) ==
    /\ worker_pc[w] \in {"locking", "woken"}
    /\ queue_mutex_ = FREE
    /\ queue_mutex_' = w
    /\ worker_pc' = [worker_pc EXCEPT ![w] = "predicate"]
    /\ UNCHANGED <<context, os_addrs, request_bytes, response_bytes, calls, lifecycle,
                   history, worker_task, worker_response, mutex, first_locker>>
    /\ UNCHANGED pipeVars
    /\ UNCHANGED netVars
    /\ UNCHANGED stopVars /\ UNCHANGED stackVars /\ UNCHANGED ipcVars /\ UNCHANGED fdVars

\* queue_cv_.wait(lock, pred) evaluates its predicate under the mutex:
\* !task_queue_.empty() || !pool_running_. When it is false the worker goes
\* on to block.
CvWorkerPredicate(w) ==
    /\ worker_pc[w] = "predicate"
    /\ worker_pc' = [worker_pc EXCEPT ![w] =
          IF task_queue # <<>> \/ ~pool_running_ THEN "ready" ELSE "entering_wait"]
    /\ UNCHANGED <<context, os_addrs, request_bytes, response_bytes, calls, lifecycle,
                   history, worker_task, worker_response, mutex, first_locker>>
    /\ UNCHANGED pipeVars
    /\ UNCHANGED netVars
    /\ UNCHANGED stopVars /\ UNCHANGED stackVars /\ UNCHANGED cvVars /\ UNCHANGED ipcVars /\ UNCHANGED fdVars

\* The wait itself: the mutex is released and the worker blocks until a
\* notify reaches it.
CvWorkerWait(w) ==
    /\ worker_pc[w] = "entering_wait"
    /\ queue_mutex_' = FREE
    /\ worker_pc' = [worker_pc EXCEPT ![w] = "blocked"]
    /\ UNCHANGED <<context, os_addrs, request_bytes, response_bytes, calls, lifecycle,
                   history, worker_task, worker_response, mutex, first_locker>>
    /\ UNCHANGED pipeVars
    /\ UNCHANGED netVars
    /\ UNCHANGED stopVars /\ UNCHANGED stackVars /\ UNCHANGED ipcVars /\ UNCHANGED fdVars

\* After the wait: the worker returns when the pool is stopped and the queue
\* empty, and else pops the front task; the mutex is released either way.
CvWorkerTake(w) ==
    /\ worker_pc[w] = "ready"
    /\ queue_mutex_' = FREE
    /\ IF ~pool_running_ /\ task_queue = <<>>
       THEN /\ worker_pc' = [worker_pc EXCEPT ![w] = "exited"]
            /\ UNCHANGED <<worker_task, task_queue>>
       ELSE /\ worker_pc' = [worker_pc EXCEPT ![w] = "popped"]
            /\ worker_task' = [worker_task EXCEPT ![w] = Head(task_queue)]
            /\ task_queue' = Tail(task_queue)
    /\ UNCHANGED <<context, os_addrs, request_bytes, response_bytes, calls, lifecycle,
                   history, worker_response, mutex, first_locker, accepted, wire>>
    /\ UNCHANGED netVars
    /\ UNCHANGED stopVars /\ UNCHANGED stackVars /\ UNCHANGED ipcVars /\ UNCHANGED fdVars

\* handle_client_async, outside the mutex, and back to the top of the loop.
CvWorkerRun(w) ==
    /\ worker_pc[w] = "popped"
    /\ worker_pc' = [worker_pc EXCEPT ![w] = "waiting"]
    /\ worker_task' = [worker_task EXCEPT ![w] = NoBytes]
    /\ UNCHANGED <<context, os_addrs, request_bytes, response_bytes, calls, lifecycle,
                   history, worker_response, mutex, first_locker>>
    /\ UNCHANGED pipeVars
    /\ UNCHANGED netVars
    /\ UNCHANGED stopVars /\ UNCHANGED stackVars /\ UNCHANGED cvVars /\ UNCHANGED ipcVars /\ UNCHANGED fdVars

\* accept_loop_threaded with a request read: the task is pushed under
\* queue_mutex_ and queue_cv_.notify_one wakes one blocked worker, if any.
CvAcceptorPush ==
    /\ accept_pc.at = "poll"
    /\ running_
    /\ accepted < MaxQueued
    /\ queue_mutex_ = FREE
    /\ task_queue' = Append(task_queue, [client_fd |-> 1, request_data |-> <<1, accepted + 1>>])
    /\ accepted' = accepted + 1
    /\ IF Blocked = {}
       THEN UNCHANGED worker_pc
       ELSE \E w \in Blocked : worker_pc' = [worker_pc EXCEPT ![w] = "woken"]
    /\ UNCHANGED <<context, os_addrs, request_bytes, response_bytes, calls, lifecycle,
                   history, worker_task, worker_response, mutex, first_locker, wire>>
    /\ UNCHANGED netVars
    /\ UNCHANGED stopVars /\ UNCHANGED stackVars /\ UNCHANGED cvVars /\ UNCHANGED ipcVars /\ UNCHANGED fdVars

\* IpcServer::stop on a running server: running_ and pool_running_ are
\* stored, without queue_mutex_.
CvStopEnter ==
    /\ stop_pc = "running"
    /\ running_' = FALSE
    /\ pool_running_' = FALSE
    /\ stop_pc' = "notifying"
    /\ UNCHANGED <<fd_table, epoll_set, client_fds_, peers, received, close_calls, accept_pc>>
    /\ UNCHANGED <<context, os_addrs, request_bytes, response_bytes, calls, lifecycle, history>>
    /\ UNCHANGED poolVars
    /\ UNCHANGED pipeVars
    /\ UNCHANGED netVars
    /\ UNCHANGED stackVars /\ UNCHANGED cvVars

\* IpcServer::stop: queue_cv_.notify_all wakes the workers that are blocked
\* in the wait; stop goes on to join every worker.
CvStopNotify ==
    /\ stop_pc = "notifying"
    /\ worker_pc' = [w \in Workers |-> IF w \in Blocked THEN "woken" ELSE worker_pc[w]]
    /\ stop_pc' = "joining_workers"
    /\ UNCHANGED <<fd_table, epoll_set, client_fds_, peers, received, close_calls, accept_pc>>
    /\ UNCHANGED <<context, os_addrs, request_bytes, response_bytes, calls, lifecycle,
                   history, worker_task, worker_response, mutex, first_locker>>
    /\ UNCHANGED pipeVars
    /\ UNCHANGED netVars
    /\ UNCHANGED stopVars /\ UNCHANGED stackVars /\ UNCHANGED cvVars /\ UNCHANGED ipcVars

\* The steps of one worker, of the acceptor, and of the thread in stop.
CvWorker(w) ==
    \/ CvWorkerTop(w)
    \/ CvWorkerLock(w)
    \/ CvWorkerPredicate(w)
    \/ CvWorkerWait(w)
    \/ CvWorkerTake(w)
    \/ CvWorkerRun(w)

CvAcceptor ==
    \/ CvAcceptorPush
    \/ AcceptorExit

CvStop ==
    \/ CvStopEnter
    \/ CvStopNotify
    \/ StopJoinWorkers
    \/ StopCloseClients
    \/ StopJoinAcceptor

NextShutdown ==
    \/ \E w \in Workers : CvWorkerTop(w)
    \/ \E w \in Workers : CvWorkerLock(w)
    \/ \E w \in Workers : CvWorkerPredicate(w)
    \/ \E w \in Workers : CvWorkerWait(w)
    \/ \E w \in Workers : CvWorkerTake(w)
    \/ \E w \in Workers : CvWorkerRun(w)
    \/ CvAcceptorPush
    \/ AcceptorExit
    \/ CvStopEnter
    \/ CvStopNotify
    \/ StopJoinWorkers
    \/ StopCloseClients
    \/ StopJoinAcceptor

\* The workers at their condition variable, the acceptor that queues tasks and
\* a thread that calls IpcServer::stop; every thread that can take a step
\* takes one in the end.
SpecShutdown ==
    /\ Init
    /\ [][NextShutdown]_vars
    /\ \A w \in Workers : WF_vars(CvWorker(w))
    /\ WF_vars(CvAcceptor)
    /\ WF_vars(CvStop)

\* C32: IpcServer::stop called on a running server returns in the end, in
\* every interleaving with the acceptor and the workers: no worker stays
\* blocked on queue_cv_ and the acceptor leaves its loop.
C32_StopReturns == (stop_pc # "running") ~> (stop_pc = "returned")

=============================================================================
